---------------------------- MODULE Spec2Model ----------------------------
(***************************************************************************)
(* A2A-Agent-Planner, modelled from the sources: the task assigner         *)
(* (TeamManager), the resource allocation service, task generation         *)
(* (TaskAgent.generate_intelligent_tasks), the timeline generator, the     *)
(* deliverables, the milestone planner, the calendar events, the           *)
(* supervisor's missions, the agent clients and the resource agent's       *)
(* find_skill_matches.                                                     *)
(*                                                                         *)
(* Numbers: the program's scores are IEEE 754 doubles; the properties      *)
(* compare them with exact rationals [n, d], d > 0.  Hours of the task     *)
(* generator are kept in tenths of an hour (12.0 h is 120).                *)
(***************************************************************************)
EXTENDS Integers, Sequences, FiniteSets, TLC

(***************************************************************************)
(* Bounds of the model.                                                    *)
(***************************************************************************)
MaxTasks == 2
MaxTeam == 2
MaxRasTasks == 2
MaxRasTeam == 2
MaxRuns == 2
MaxItems == 2
MaxEntries == 3
MaxParTasks == 1
MaxAiMilestones == 2
MaxMissions == 2
MaxCallers == 2
MaxRequired == 3

(***************************************************************************)
(* The state.                                                              *)
(***************************************************************************)
VARIABLES
    tm_pc,           \* "idle", "start", "loop", "done": the position in assign_tasks_to_team
    tm_tasks,        \* the tasks argument
    tm_team,         \* the team_members argument
    tm_i,            \* the index of the next task of the loop
    tm_assignments,  \* assignments["task_assignments"]
    tm_workload,     \* assignments["team_workload"], keyed by member name
    tm_recs,         \* assignments["recommendations"]
    tm_log           \* per processed task: the member index chosen (0: none), the hours

tm_vars == <<tm_pc, tm_tasks, tm_team, tm_i, tm_assignments, tm_workload, tm_recs, tm_log>>


VARIABLES
    ras_pc,          \* "idle", "ready", "loop", "returned", "raised"
    ras_members,     \* the repository's TeamMember objects, in get_all() order
    ras_tasks,       \* the tasks argument of the run
    ras_i,           \* the index of the next task of the loop
    ras_allocations, \* allocation_results["allocations"]
    ras_unallocated, \* allocation_results["unallocated_tasks"]
    ras_utilization, \* allocation_results["team_utilization"], by member name
    ras_runs,        \* the number of calls that have ended
    ras_first,       \* what the first call returned
    ras_before       \* the members' workloads when the run started

ras_vars == <<ras_pc, ras_members, ras_tasks, ras_i, ras_allocations, ras_unallocated,
              ras_utilization, ras_runs, ras_first, ras_before>>

VARIABLES
    gen_pc,          \* "idle", "start", "loop", "done": the position in generate_intelligent_tasks
    gen_context,     \* the context argument
    gen_response,    \* what the text-generation call does for this run
    gen_data,        \* the elements of tasks_data, the parsed JSON
    gen_i,           \* the index of the next task_dict of the loop
    gen_tasks,       \* tasks, the list the loop builds
    gen_result,      \* the list returned
    gen_path         \* "none", "ai", "fallback": which return statement returned

gen_vars == <<gen_pc, gen_context, gen_response, gen_data, gen_i, gen_tasks, gen_result, gen_path>>

VARIABLES
    tl_pc,           \* "idle", "milestones", "tasks", "done", "raised"
    tl_milestones,   \* the milestones argument
    tl_tasks,        \* the tasks argument
    tl_team,         \* the team_members argument
    tl_start,        \* project_start: its day, and whether it has a time of day
    tl_i,            \* the index of the next element of the current loop
    tl_current,      \* current_date of the milestone loop
    tl_task_start,   \* task_start_date
    tl_workload,     \* team_workload: name and scheduled days, in dict order
    tl_ms_out,       \* timeline["milestones_timeline"]
    tl_tasks_out,    \* timeline["tasks_timeline"]
    tl_assignments,  \* timeline["team_assignments"]
    tl_summary       \* timeline["project_summary"]

tl_vars == <<tl_pc, tl_milestones, tl_tasks, tl_team, tl_start, tl_i, tl_current, tl_task_start,
             tl_workload, tl_ms_out, tl_tasks_out, tl_assignments, tl_summary>>

VARIABLES
    par_pc,          \* per call: "idle", "ready", "loop", "returned", "raised"
    par_tasks,       \* per call: its tasks argument
    par_i,           \* per call: the index of the next task of its loop
    par_members,     \* the repository's TeamMember objects, shared by the calls
    par_initial,     \* the members before any call
    par_allocations, \* per call: allocation_results["allocations"]
    par_unallocated  \* per call: allocation_results["unallocated_tasks"]

par_vars == <<par_pc, par_tasks, par_i, par_members, par_initial, par_allocations, par_unallocated>>

VARIABLES
    del_pc,            \* "idle", "export", "timeline", "assign", "calendar", "gantt", "return", "returned"
    del_export,        \* what create_project_structure does in this run
    del_milestones,    \* norm_milestones
    del_tasks,         \* norm_tasks
    del_team,          \* team_members
    del_local_project, \* deliverables["local_project"]: "none", "created", "error_result"
    del_deliverables   \* the keys of the deliverables dict

del_vars == <<del_pc, del_export, del_milestones, del_tasks, del_team, del_local_project,
              del_deliverables>>

VARIABLES
    mp_pc,               \* "idle", "start", "ai_loop", "fallback", "phases", "returned"
    mp_project_info,     \* user_specified_duration and the has_* flags
    mp_enable_ai,        \* ai_service.enable_ai
    mp_ai_milestones,    \* what generate_smart_milestones returns
    mp_afternoon,        \* whether current_date is past noon
    mp_i,                \* the index of the next AI milestone or phase
    mp_total_weeks_used, \* total_weeks_used, in half weeks
    mp_features,         \* the phases of the structured plan
    mp_extra_weeks,      \* extra_weeks
    mp_current_week,     \* current_week
    mp_path,             \* "none", "ai", "structured": which plan is being built
    mp_milestones        \* the milestones list being built and returned

mp_vars == <<mp_pc, mp_project_info, mp_enable_ai, mp_ai_milestones, mp_afternoon, mp_i,
             mp_total_weeks_used, mp_features, mp_extra_weeks, mp_current_week, mp_path,
             mp_milestones>>

VARIABLES
    cal_pc,          \* "idle", "created": whether create_calendar_events has run on the timeline
    cal_events       \* the events list it returns

cal_vars == <<cal_pc, cal_events>>

VARIABLES
    sup_pc,              \* per handle_mission call: "idle", "ready", "milestone_agent", "task_agent",
                         \* "resource_agent", "deliverables", "fallback", "returned": its position
    sup_project_id,      \* per call: its local project_id, the number of its entry (0 before the call)
    sup_active_projects, \* self.active_projects, in insertion order
    sup_response         \* per call: what it returned

sup_vars == <<sup_pc, sup_project_id, sup_active_projects, sup_response>>

VARIABLES
    cli_pc,      \* per send_to_agent call: "idle", "ready", "resolving", "closing", "sending",
                 \* "done", "failed"
    cli_url,     \* per call: the agent_url it was given ("none" before it starts)
    cli_client,  \* per call: the persistent client get_client returned to it (0: none yet)
    cli_clients, \* self.clients: agent_url -> persistent client (0: the url is not a key)
    cli_created  \* the persistent clients created so far: client i was created for cli_created[i]

cli_vars == <<cli_pc, cli_url, cli_client, cli_clients, cli_created>>

VARIABLES
    fsm_pc,              \* "idle", "ready", "done": the position of a find_skill_matches call
    fsm_required_skills, \* its required_skills list
    fsm_matches          \* the dict it returns: the lists "perfect", "good" and "partial"

fsm_vars == <<fsm_pc, fsm_required_skills, fsm_matches>>

vars == <<tm_vars, ras_vars, gen_vars, tl_vars, par_vars, del_vars, mp_vars, cal_vars, sup_vars, cli_vars,
          fsm_vars>>

\* What each component leaves alone.
TMOthers == <<ras_vars, gen_vars, tl_vars, par_vars, del_vars, mp_vars, cal_vars, sup_vars, cli_vars, fsm_vars>>
RASOthers == <<tm_vars, gen_vars, tl_vars, par_vars, del_vars, mp_vars, cal_vars, sup_vars, cli_vars, fsm_vars>>
GenOthers == <<tm_vars, ras_vars, tl_vars, par_vars, del_vars, mp_vars, cal_vars, sup_vars, cli_vars, fsm_vars>>
TLOthers == <<tm_vars, ras_vars, gen_vars, par_vars, del_vars, mp_vars, cal_vars, sup_vars, cli_vars, fsm_vars>>
ParOthers == <<tm_vars, ras_vars, gen_vars, tl_vars, del_vars, mp_vars, cal_vars, sup_vars, cli_vars, fsm_vars>>
DelOthers == <<tm_vars, ras_vars, gen_vars, tl_vars, par_vars, mp_vars, cal_vars, sup_vars, cli_vars, fsm_vars>>
MPOthers == <<tm_vars, ras_vars, gen_vars, tl_vars, par_vars, del_vars, cal_vars, sup_vars, cli_vars, fsm_vars>>
CalOthers == <<tm_vars, ras_vars, gen_vars, tl_vars, par_vars, del_vars, mp_vars, sup_vars, cli_vars, fsm_vars>>
SupOthers == <<tm_vars, ras_vars, gen_vars, tl_vars, par_vars, del_vars, mp_vars, cal_vars, cli_vars, fsm_vars>>
CliOthers == <<tm_vars, ras_vars, gen_vars, tl_vars, par_vars, del_vars, mp_vars, cal_vars, sup_vars, fsm_vars>>
FsmOthers == <<tm_vars, ras_vars, gen_vars, tl_vars, par_vars, del_vars, mp_vars, cal_vars, sup_vars, cli_vars>>

(***************************************************************************)
(* Helpers.                                                                *)
(***************************************************************************)
BoundedSeq(S, n) == UNION {[1..k -> S] : k \in 0..n}

\* set(list)
ToSet(list) == {list[n] : n \in 1..Len(list)}

RECURSIVE SumOver(_, _)
SumOver(f, S) ==
    IF S = {} THEN 0
    ELSE LET x == CHOOSE y \in S : TRUE
         IN f[x] + SumOver(f, S \ {x})

RECURSIVE DigitsToInt(_)
DigitsToInt(ds) ==
    IF ds = <<>> THEN 0
    ELSE 10 * DigitsToInt(SubSeq(ds, 1, Len(ds) - 1)) + ds[Len(ds)]

(***************************************************************************)
(* Python floats.  The scores of the team manager are IEEE 754 doubles;    *)
(* a double is modelled exactly, as                                        *)
(*     [sign |-> 0 or 1, m |-> mantissa, e |-> exponent]                   *)
(* with the value (-1)^sign * m * 2^e, where m is a natural number below   *)
(* 2^53, at least 2^52 unless the double is 0, written in base 2^15 with   *)
(* the least significant digit first (the integers of the model checker    *)
(* have 32 bits).  Every operation computes the exact result and rounds it *)
(* to the nearest double, ties to even, as the hardware does.  Infinities, *)
(* NaN and subnormal numbers do not arise from the scores.                 *)
(***************************************************************************)
BigBase == 32768
BigBits == 15

RECURSIVE Pow2(_)
Pow2(n) == IF n = 0 THEN 1 ELSE 2 * Pow2(n - 1)

\* The digits of a natural number without leading zero digits.
RECURSIVE BigTrim(_)
BigTrim(a) ==
    IF a = <<>> THEN a
    ELSE IF a[Len(a)] = 0 THEN BigTrim(SubSeq(a, 1, Len(a) - 1)) ELSE a

RECURSIVE BigFromNat(_)
BigFromNat(n) == IF n = 0 THEN <<>> ELSE <<n % BigBase>> \o BigFromNat(n \div BigBase)

BigDigit(a, i) == IF i <= Len(a) THEN a[i] ELSE 0

RECURSIVE BigAddFrom(_, _, _, _)
BigAddFrom(a, b, i, carry) ==
    IF i > Len(a) /\ i > Len(b)
    THEN IF carry = 0 THEN <<>> ELSE <<carry>>
    ELSE LET s == BigDigit(a, i) + BigDigit(b, i) + carry
         IN <<s % BigBase>> \o BigAddFrom(a, b, i + 1, s \div BigBase)

BigAdd(a, b) == BigAddFrom(a, b, 1, 0)

\* a - b for a >= b
RECURSIVE BigSubFrom(_, _, _, _)
BigSubFrom(a, b, i, borrow) ==
    IF i > Len(a) THEN <<>>
    ELSE LET s == BigDigit(a, i) - BigDigit(b, i) - borrow
         IN IF s < 0
            THEN <<s + BigBase>> \o BigSubFrom(a, b, i + 1, 1)
            ELSE <<s>> \o BigSubFrom(a, b, i + 1, 0)

BigSub(a, b) == BigTrim(BigSubFrom(a, b, 1, 0))

\* -1, 0 or 1 as a < b, a = b or a > b
RECURSIVE BigCmpFrom(_, _, _)
BigCmpFrom(a, b, i) ==
    IF i = 0 THEN 0
    ELSE IF a[i] < b[i] THEN -1
    ELSE IF a[i] > b[i] THEN 1
    ELSE BigCmpFrom(a, b, i - 1)

BigCmp(a, b) ==
    IF Len(a) < Len(b) THEN -1
    ELSE IF Len(a) > Len(b) THEN 1
    ELSE BigCmpFrom(a, b, Len(a))

\* a * k for a digit k
RECURSIVE BigMulSmallFrom(_, _, _, _)
BigMulSmallFrom(a, k, i, carry) ==
    IF i > Len(a)
    THEN IF carry = 0 THEN <<>> ELSE <<carry>>
    ELSE LET p == a[i] * k + carry
         IN <<p % BigBase>> \o BigMulSmallFrom(a, k, i + 1, p \div BigBase)

BigMulSmall(a, k) == IF k = 0 THEN <<>> ELSE BigMulSmallFrom(a, k, 1, 0)

BigShiftDigits(a, n) == IF a = <<>> THEN a ELSE [i \in 1..n |-> 0] \o a

RECURSIVE BigMulFrom(_, _, _)
BigMulFrom(a, b, i) ==
    IF i > Len(b) THEN <<>>
    ELSE BigAdd(BigShiftDigits(BigMulSmall(a, b[i]), i - 1), BigMulFrom(a, b, i + 1))

BigMul(a, b) == BigMulFrom(a, b, 1)

\* Quotient and remainder of a by d, 0 < d < BigBase, from the most
\* significant digit on.
RECURSIVE BigDivSmallFrom(_, _, _, _)
BigDivSmallFrom(a, d, i, rem) ==
    IF i = 0 THEN [q |-> <<>>, r |-> rem]
    ELSE LET cur == rem * BigBase + a[i]
             rest == BigDivSmallFrom(a, d, i - 1, cur % d)
         IN [q |-> rest.q \o <<cur \div d>>, r |-> rest.r]

BigDivSmall(a, d) ==
    LET res == BigDivSmallFrom(a, d, Len(a), 0)
    IN [q |-> BigTrim(res.q), r |-> res.r]

\* a * 2^n
BigShiftLeft(a, n) == BigShiftDigits(BigMulSmall(a, Pow2(n % BigBits)), n \div BigBits)

\* floor(a / 2^n)
BigShiftRight(a, n) ==
    LET k == n \div BigBits
    IN IF k >= Len(a) THEN <<>>
       ELSE BigDivSmall(SubSeq(a, k + 1, Len(a)), Pow2(n % BigBits)).q

\* a mod 2^n
BigLowBits(a, n) ==
    LET k == n \div BigBits
    IN IF k >= Len(a) THEN a
       ELSE BigTrim(SubSeq(a, 1, k) \o <<a[k + 1] % Pow2(n % BigBits)>>)

RECURSIVE BitLength(_)
BitLength(n) == IF n = 0 THEN 0 ELSE 1 + BitLength(n \div 2)

BigBitLength(a) == IF a = <<>> THEN 0 ELSE (Len(a) - 1) * BigBits + BitLength(a[Len(a)])

BigIsOdd(a) == a # <<>> /\ a[1] % 2 = 1

FloatZero == [sign |-> 0, m |-> <<>>, e |-> 0]

\* q, or q + 1 when the bits dropped from it are more than half a unit of
\* q (c = 1) or exactly half and q is odd (c = 0).
BigRoundUp(q, c) == IF c = 1 \/ (c = 0 /\ BigIsOdd(q)) THEN BigAdd(q, <<1>>) ELSE q

\* big / 2^sh rounded to the nearest natural number, ties to even.
BigRoundShift(big, sh) ==
    BigRoundUp(BigShiftRight(big, sh), BigCmp(BigLowBits(big, sh), BigShiftLeft(<<1>>, sh - 1)))

\* The double of a mantissa of 53 bits, or of 54 bits after a carry.
FloatOfMantissa(sign, m, e) ==
    IF BigBitLength(m) = 54
    THEN [sign |-> sign, m |-> BigShiftRight(m, 1), e |-> e + 1]
    ELSE [sign |-> sign, m |-> m, e |-> e]

\* The double nearest to (-1)^sign * big * 2^e for a big of len bits.
FloatRoundBits(sign, big, e, len) ==
    IF len = 0 THEN FloatZero
    ELSE IF len <= 53
    THEN [sign |-> sign, m |-> BigShiftLeft(big, 53 - len), e |-> e - (53 - len)]
    ELSE FloatOfMantissa(sign, BigRoundShift(big, len - 53), e + (len - 53))

\* The double nearest to (-1)^sign * big * 2^e, ties to even.
FloatRound(sign, big, e) == FloatRoundBits(sign, big, e, BigBitLength(big))

\* float(n) of an int
FloatFromInt(n) ==
    FloatRound(IF n < 0 THEN 1 ELSE 0, BigFromNat(IF n < 0 THEN -n ELSE n), 0)

FloatNeg(a) == IF a.m = <<>> THEN a ELSE [a EXCEPT !.sign = 1 - a.sign]

\* a * b
FloatMul(a, b) ==
    IF a.m = <<>> \/ b.m = <<>> THEN FloatZero
    ELSE FloatRound((a.sign + b.sign) % 2, BigMul(a.m, b.m), a.e + b.e)

\* a / d for an int (or a float with the value of an int) d, 0 < d < 2^15
\* Twice the quotient, plus one when the division left a remainder.
BigWithSticky(res) == BigAdd(BigShiftLeft(res.q, 1), IF res.r = 0 THEN <<>> ELSE <<1>>)

FloatDivInt(a, d) ==
    IF a.m = <<>> THEN FloatZero
    ELSE FloatRound(a.sign, BigWithSticky(BigDivSmall(BigShiftLeft(a.m, 18), d)), a.e - 19)

\* -1, 0 or 1 as |a| < |b|, |a| = |b| or |a| > |b|
FloatCmpAbs(a, b) ==
    IF a.m = <<>> THEN (IF b.m = <<>> THEN 0 ELSE -1)
    ELSE IF b.m = <<>> THEN 1
    ELSE IF a.e < b.e THEN -1
    ELSE IF a.e > b.e THEN 1
    ELSE BigCmp(a.m, b.m)

\* |p - q| for two natural numbers of which c says which is the larger.
BigDifference(p, q, c) == IF c = 1 THEN BigSub(p, q) ELSE BigSub(q, p)

\* (-1)^sa * p * 2^e + (-1)^sb * q * 2^e; c compares p with q.  The sum of
\* two opposite numbers is +0.
FloatAddAligned(sa, p, sb, q, e, c) ==
    FloatRound(IF sa = sb \/ c = 1 THEN sa ELSE sb,
               IF sa = sb THEN BigAdd(p, q) ELSE BigDifference(p, q, c), e)

\* a + b with both mantissas at the exponent e, the smaller of the two.
FloatAddAt(sa, p, sb, q, e) == FloatAddAligned(sa, p, sb, q, e, BigCmp(p, q))

FloatAddFrom(a, b, e) ==
    FloatAddAt(a.sign, BigShiftLeft(a.m, a.e - e), b.sign, BigShiftLeft(b.m, b.e - e), e)

\* a + b
FloatAdd(a, b) ==
    IF a.m = <<>> THEN b
    ELSE IF b.m = <<>> THEN a
    ELSE IF a.e - b.e > 64 THEN a
    ELSE IF b.e - a.e > 64 THEN b
    ELSE FloatAddFrom(a, b, IF a.e < b.e THEN a.e ELSE b.e)

\* a - b
FloatSub(a, b) == FloatAdd(a, FloatNeg(b))

\* a < b
FloatLess(a, b) ==
    IF a.sign = 1 /\ b.sign = 0 THEN TRUE
    ELSE IF a.sign = 0 /\ b.sign = 1 THEN FALSE
    ELSE IF a.sign = 0 THEN FloatCmpAbs(a, b) = -1
    ELSE FloatCmpAbs(a, b) = 1

\* a == b
FloatEq(a, b) == a = b

\* a <= b
FloatLeq(a, b) == FloatLess(a, b) \/ FloatEq(a, b)

\* The float literal n/d written in decimal (0.3 is FloatLiteral(3, 10)):
\* the double nearest to the quotient.
FloatLiteral(n, d) == FloatDivInt(FloatFromInt(n), d)

FloatTen == FloatFromInt(10)
FloatHundred == FloatFromInt(100)

(***************************************************************************)
(* TeamManager: the skill database, text matching, scores.  A member's     *)
(* skills are the items of its skills dict in insertion order, each a      *)
(* [skill, level]; a dict holds a skill once.                              *)
(***************************************************************************)
\* level_multiplier of a skill of skill_database, in tenths as written
\* there (1.1 is 11); a skill the database does not know gets 1.0.
LevelMultiplier10(skill) ==
    CASE skill = "python" -> 10
      [] skill = "javascript" -> 10
      [] skill = "typescript" -> 11
      [] skill = "java" -> 11
      [] skill = "react" -> 12
      [] skill = "nodejs" -> 11
      [] skill = "sql" -> 10
      [] skill = "mongodb" -> 10
      [] skill = "ui_design" -> 12
      [] skill = "ux_research" -> 13
      [] skill = "figma" -> 10
      [] skill = "photoshop" -> 10
      [] skill = "docker" -> 12
      [] skill = "kubernetes" -> 14
      [] skill = "aws" -> 13
      [] skill = "ci_cd" -> 12
      [] skill = "project_management" -> 13
      [] skill = "agile" -> 11
      [] skill = "scrum" -> 11
      [] OTHER -> 10

\* skill_info["level_multiplier"], the float
LevelMultiplier(skill) == FloatLiteral(LevelMultiplier10(skill), 10)

\* skill.replace("_", " ") on the skill names with an underscore
ReplaceUnderscore(skill) ==
    CASE skill = "ui_design" -> "ui design"
      [] skill = "ux_research" -> "ux research"
      [] skill = "ci_cd" -> "ci cd"
      [] skill = "project_management" -> "project management"
      [] skill = "data_analysis" -> "data analysis"
      [] skill = "machine_learning" -> "machine learning"
      [] OTHER -> skill

\* Python's  a in b  on the words the model's texts are made of.
IsSubstring(a, b) == a = b \/ (a = "java" /\ b = "javascript")

\* skill in task_text or skill.replace("_", " ") in task_text; a task text
\* is the set of the (lower-cased) words and phrases of title + description.
SkillInText(skill, text) ==
    \E w \in text : IsSubstring(skill, w) \/ IsSubstring(ReplaceUnderscore(skill), w)

\* The skills of a member and the level of one of them.
SkillNames(member) == {member.skills[n].skill : n \in 1..Len(member.skills)}

SkillLevel(member, skill) ==
    member.skills[CHOOSE n \in 1..Len(member.skills) : member.skills[n].skill = skill].level

\* The items of member["skills"] the loop counts, in the order of the loop.
MatchedItems(task, member) ==
    SelectSeq(member.skills, LAMBDA item : SkillInText(item.skill, task.text))

MatchedSkills(task, member) ==
    {s \in SkillNames(member) : SkillInText(s, task.text)}

\* match_value = level * skill_info["level_multiplier"]
MatchValue(skill, level) == FloatMul(FloatFromInt(level), LevelMultiplier(skill))

\* total_match after the loop: 0, then += match_value item by item.
RECURSIVE TotalMatch(_, _)
TotalMatch(items, n) ==
    IF n = 0 THEN FloatZero
    ELSE FloatAdd(TotalMatch(items, n - 1), MatchValue(items[n].skill, items[n].level))

\* min(10, a)
FloatMin10(a) == IF FloatLess(a, FloatTen) THEN a ELSE FloatTen

\* _calculate_skill_match: min(10, total_match / skills_matched), 0 when no
\* skill of the member occurs in the task text.
CalculateSkillMatch(task, member) ==
    LET items == MatchedItems(task, member)
    IN IF Len(items) > 0
       THEN FloatMin10(FloatDivInt(TotalMatch(items, Len(items)), Len(items)))
       ELSE FloatZero

\* The time estimate string: its digits in order, and the unit words in it.
NoEstimate == [digits |-> <<>>, units |-> {"absent"}]
DefaultEstimate == [digits |-> <<8>>, units |-> {"hour"}]

\* _estimate_task_hours
EstimateTaskHours(task) ==
    LET te == IF task.time_estimate = NoEstimate THEN DefaultEstimate ELSE task.time_estimate
        n(default) == IF te.digits = <<>> THEN default ELSE DigitsToInt(te.digits)
    IN CASE "hour" \in te.units -> n(8)
         [] "day" \in te.units -> n(1) * 8
         [] "week" \in te.units -> n(1) * 40
         [] OTHER -> 8

\* workload_penalty * 0.3, with workload_penalty = total_hours / 40.0
WorkloadPenalty(total_hours) ==
    FloatMul(FloatDivInt(FloatFromInt(total_hours), 40), FloatLiteral(3, 10))

\* final_score = skill_score - (workload_penalty * 0.3)
FinalScore(task, member, total_hours) ==
    FloatSub(CalculateSkillMatch(task, member), WorkloadPenalty(total_hours))

\* (hours / 40) * 100
PercentOf40(hours) == FloatMul(FloatDivInt(FloatFromInt(hours), 40), FloatHundred)

\* min(100, (total_hours / 40) * 100)
Utilization(total_hours) ==
    LET percent == PercentOf40(total_hours)
    IN IF FloatLess(percent, FloatHundred) THEN percent ELSE FloatHundred

(***************************************************************************)
(* The inputs of the TeamManager runs.                                     *)
(***************************************************************************)
MemberCatalog ==
    { [name |-> "Alex Smith",   role |-> "Backend Developer",
       skills |-> <<[skill |-> "python", level |-> 9]>>],
      [name |-> "Jordan Brown", role |-> "Backend Developer",
       skills |-> <<[skill |-> "python", level |-> 9], [skill |-> "sql", level |-> 3]>>],
      [name |-> "Alex Smith",   role |-> "Project Manager",
       skills |-> <<[skill |-> "sql", level |-> 3]>>],
      [name |-> "Riley Davis",  role |-> "Frontend Developer",
       skills |-> <<[skill |-> "java", level |-> 9], [skill |-> "ui_design", level |-> 10]>>] }

TaskCatalog ==
    { [title |-> "Build Python API", text |-> {"build", "python", "api"},
       time_estimate |-> [digits |-> <<8>>, units |-> {"hour"}]],
      [title |-> "Python data layer", text |-> {"python", "sql", "data", "layer"},
       time_estimate |-> [digits |-> <<2>>, units |-> {"day"}]],
      [title |-> "Tune SQL", text |-> {"tune", "sql"},
       time_estimate |-> [digits |-> <<2, 0>>, units |-> {"week"}]],
      [title |-> "Design screens", text |-> {"design", "screens", "ui design", "javascript"},
       time_estimate |-> [digits |-> <<>>, units |-> {"hour"}]],
      [title |-> "Kickoff meeting", text |-> {"kickoff", "meeting"},
       time_estimate |-> NoEstimate],
      [title |-> "Tune SQL again", text |-> {"tune", "sql", "again"},
       time_estimate |-> [digits |-> <<1>>, units |-> {"quarter"}]] }

(***************************************************************************)
(* The scores of the catalog, computed once: the float operations are      *)
(* costly to evaluate, and a score depends on the task, the member and the *)
(* hours only.  Outside the catalog the operators above are evaluated.     *)
(***************************************************************************)
\* The hours a member of a run can have accumulated.
CatalogHours == {8 * a + 800 * c : a \in 0..8, c \in 0..4}

SkillMatchOfCatalog ==
    [task \in TaskCatalog |-> [member \in MemberCatalog |-> CalculateSkillMatch(task, member)]]

FinalScoreOfCatalog ==
    [task \in TaskCatalog |-> [member \in MemberCatalog |-> [total_hours \in CatalogHours |->
        FloatSub(SkillMatchOfCatalog[task][member], WorkloadPenalty(total_hours))]]]

UtilizationOfCatalog == [total_hours \in CatalogHours |-> Utilization(total_hours)]

\* self._calculate_skill_match(task, member)
SkillScore(task, member) ==
    IF task \in TaskCatalog /\ member \in MemberCatalog
    THEN SkillMatchOfCatalog[task][member]
    ELSE CalculateSkillMatch(task, member)

\* final_score of a member in the loop of _find_best_assignee
FinalScoreOf(task, member, total_hours) ==
    IF task \in TaskCatalog /\ member \in MemberCatalog /\ total_hours \in CatalogHours
    THEN FinalScoreOfCatalog[task][member][total_hours]
    ELSE FinalScore(task, member, total_hours)

\* workload["utilization"] at the end of assign_tasks_to_team
UtilizationOf(total_hours) ==
    IF total_hours \in CatalogHours
    THEN UtilizationOfCatalog[total_hours]
    ELSE Utilization(total_hours)

\* The loop of _find_best_assignee from member i on: the index of the best
\* member so far (0 is None) and its score.
RECURSIVE FindBestFrom(_, _, _, _, _, _)
FindBestFrom(task, team, workload, i, best, best_score) ==
    IF i > Len(team) THEN best
    ELSE LET fs == FinalScoreOf(task, team[i], workload[team[i].name].total_hours)
         IN IF FloatLess(best_score, fs)
            THEN FindBestFrom(task, team, workload, i + 1, i, fs)
            ELSE FindBestFrom(task, team, workload, i + 1, best, best_score)

\* _find_best_assignee: best_member = None, best_score = 0.
FindBestAssignee(task, team, workload) ==
    FindBestFrom(task, team, workload, 1, 0, FloatZero)

\* Lines 139-140: the workload entry of the assignee's name grows.
AddWorkload(workload, nm, task_hours) ==
    [workload EXCEPT ![nm].assigned_tasks = @ + 1,
                     ![nm].total_hours = @ + task_hours]

TMNames == {tm_team[i].name : i \in 1..Len(tm_team)}

TMIdle ==
    /\ tm_pc = "idle"
    /\ tm_tasks = <<>>
    /\ tm_team = <<>>
    /\ tm_i = 1
    /\ tm_assignments = <<>>
    /\ tm_workload = << >>
    /\ tm_recs = <<>>
    /\ tm_log = <<>>

\* A call of assign_tasks_to_team(tasks, team_members).
TMInit ==
    /\ tm_pc = "start"
    /\ tm_tasks \in BoundedSeq(TaskCatalog, MaxTasks)
    /\ tm_team \in BoundedSeq(MemberCatalog, MaxTeam)
    /\ tm_i = 1
    /\ tm_assignments = <<>>
    /\ tm_workload = << >>
    /\ tm_recs = <<>>
    /\ tm_log = <<>>

\* Lines 104-117: the result is created and every member name gets a
\* zeroed workload entry.
TMInitWorkload ==
    /\ tm_pc = "start"
    /\ tm_workload' = [nm \in TMNames |-> [assigned_tasks |-> 0, total_hours |-> 0, utilization |-> FloatZero]]
    /\ tm_pc' = "loop"
    /\ UNCHANGED <<tm_tasks, tm_team, tm_i, tm_assignments, tm_recs, tm_log>>
    /\ UNCHANGED TMOthers

\* Lines 120-142: one iteration of the task loop.
TMAssignTask ==
    /\ tm_pc = "loop"
    /\ tm_i <= Len(tm_tasks)
    /\ LET task == tm_tasks[tm_i]
       IN \E best \in {FindBestAssignee(task, tm_team, tm_workload)} :
          IF best # 0
          THEN LET task_hours == EstimateTaskHours(task)
                   nm == tm_team[best].name
               IN /\ tm_assignments' = Append(tm_assignments,
                         [task_title |-> task.title,
                          assigned_to |-> nm,
                          assignee_role |-> tm_team[best].role,
                          estimated_hours |-> task_hours,
                          match_score |-> SkillScore(task, tm_team[best])])
                  /\ tm_workload' = AddWorkload(tm_workload, nm, task_hours)
                  /\ tm_log' = Append(tm_log, [member |-> best, hours |-> task_hours])
                  /\ UNCHANGED tm_recs
          ELSE /\ tm_recs' = Append(tm_recs, <<"No suitable assignee found for: ", task.title>>)
               /\ tm_log' = Append(tm_log, [member |-> 0, hours |-> 0])
               /\ UNCHANGED <<tm_assignments, tm_workload>>
    /\ tm_i' = tm_i + 1
    /\ UNCHANGED <<tm_pc, tm_tasks, tm_team>>
    /\ UNCHANGED TMOthers

\* Lines 144-148: the utilization of every member, and the return.
TMReturn ==
    /\ tm_pc = "loop"
    /\ tm_i > Len(tm_tasks)
    /\ tm_workload' = [nm \in DOMAIN tm_workload |->
            [tm_workload[nm] EXCEPT !.utilization = UtilizationOf(tm_workload[nm].total_hours)]]
    /\ tm_pc' = "done"
    /\ UNCHANGED <<tm_tasks, tm_team, tm_i, tm_assignments, tm_recs, tm_log>>
    /\ UNCHANGED TMOthers


(***************************************************************************)
(* ResourceAllocationService over the in-memory team repository.  The      *)
(* repository hands out its own TeamMember objects, so what a run writes   *)
(* to a member stays for the next run.                                     *)
(***************************************************************************)
MAX_WORKLOAD == 40

CanTakeTaskSkillsOnly(member, task) ==
    task.skills_required \subseteq member.skills

\* TeamMember.can_take_task
CanTakeTask(member, task) ==
    /\ task.skills_required \subseteq member.skills
    /\ member.current_workload + task.estimated_hours <= MAX_WORKLOAD

\* The members _find_suitable_member collects, in repository order.
SuitableIndices(task, members) ==
    {i \in 1..Len(members) : CanTakeTask(members[i], task)}

\* len(required & member_skills) / len(required): raises ZeroDivisionError
\* when the task requires no skill.
SkillMatchRaises(task) == Cardinality(task.skills_required) = 0

SkillMatchRatio(task, member) ==
    FloatDivInt(FloatFromInt(Cardinality(task.skills_required \cap member.skills)),
                Cardinality(task.skills_required))

\* The ratios of up to four skills and the percentages of the workloads up
\* to 80 hours, computed once.
SkillMatchRatioOfCounts ==
    [n \in 0..4 |-> [d \in 1..4 |-> FloatDivInt(FloatFromInt(n), d)]]

PercentOfWorkload == [hours \in 0..80 |-> PercentOf40(hours)]

\* skill_match of a member _find_suitable_member collected
SkillMatchOf(task, member) ==
    LET n == Cardinality(task.skills_required \cap member.skills)
        d == Cardinality(task.skills_required)
    IN IF n \in 0..4 /\ d \in 1..4 THEN SkillMatchRatioOfCounts[n][d] ELSE SkillMatchRatio(task, member)

\* (member.current_workload / 40) * 100
UtilizationPercentage(current_workload) ==
    IF current_workload \in 0..80 THEN PercentOfWorkload[current_workload]
    ELSE PercentOf40(current_workload)

\* sort(key = (skill_match, -current_workload), reverse = True): whether i
\* comes before j; the sort is stable, so equal keys keep repository order.
SortsBefore(task, members, i, j) ==
    LET a == SkillMatchOf(task, members[i])
        b == SkillMatchOf(task, members[j])
    IN \/ FloatLess(b, a)
       \/ /\ FloatEq(a, b)
          /\ \/ members[i].current_workload < members[j].current_workload
             \/ (members[i].current_workload = members[j].current_workload /\ i < j)

\* _find_suitable_member: the index of the member returned, 0 for None.
\* Only called on a task for which the ratio does not raise.
FindSuitableMember(task, members) ==
    LET S == SuitableIndices(task, members)
    IN IF S = {} THEN 0
       ELSE CHOOSE i \in S : \A j \in S \ {i} : SortsBefore(task, members, i, j)

\* TeamMember.assign_task
AssignTask(member, task) ==
    [member EXCEPT !.assigned_tasks = Append(@, task.id),
                   !.current_workload = @ + task.estimated_hours]

RasMemberCatalog ==
    { [id |-> "m1", name |-> "Ana", skills |-> {"python", "sql"}, current_workload |-> 0, assigned_tasks |-> <<>>],
      [id |-> "m2", name |-> "Ben", skills |-> {"python"}, current_workload |-> 0, assigned_tasks |-> <<>>],
      [id |-> "m3", name |-> "Cy",  skills |-> {"sql"}, current_workload |-> 36, assigned_tasks |-> <<>>] }

RasTaskCatalog ==
    { [id |-> "t1", title |-> "API", skills_required |-> {"python"}, estimated_hours |-> 8],
      [id |-> "t2", title |-> "Data layer", skills_required |-> {"python", "sql"}, estimated_hours |-> 40],
      [id |-> "t3", title |-> "Kickoff", skills_required |-> {}, estimated_hours |-> 8],
      [id |-> "t4", title |-> "Go service", skills_required |-> {"sql", "go"}, estimated_hours |-> 4] }

\* The repository's members: a dict keyed by id, in insertion order.
RasRosters ==
    {r \in BoundedSeq(RasMemberCatalog, MaxRasTeam) :
        \A i, j \in 1..Len(r) : i # j => r[i].id # r[j].id}

NoResult == [allocations |-> <<>>, unallocated |-> <<>>, ended |-> "no"]

RASIdle ==
    /\ ras_pc = "idle"
    /\ ras_members = <<>>
    /\ ras_tasks = <<>>
    /\ ras_i = 1
    /\ ras_allocations = <<>>
    /\ ras_unallocated = <<>>
    /\ ras_utilization = << >>
    /\ ras_runs = 0
    /\ ras_first = NoResult
    /\ ras_before = <<>>

\* The service with its repository filled, before the first call; the
\* caller's task list is fixed here and handed to every call.
RASInit ==
    /\ ras_pc = "ready"
    /\ ras_members \in RasRosters
    /\ ras_tasks \in BoundedSeq(RasTaskCatalog, MaxRasTasks)
    /\ ras_i = 1
    /\ ras_allocations = <<>>
    /\ ras_unallocated = <<>>
    /\ ras_utilization = << >>
    /\ ras_runs = 0
    /\ ras_first = NoResult
    /\ ras_before = <<>>

\* Lines 392-397: a call of allocate_tasks_to_team(tasks) starts: get_all()
\* returns the repository's own objects and the result is created.
RASBegin ==
    /\ ras_pc \in {"ready", "returned", "raised"}
    /\ ras_runs < MaxRuns
    /\ ras_pc' = "loop"
    /\ ras_i' = 1
    /\ ras_allocations' = <<>>
    /\ ras_unallocated' = <<>>
    /\ ras_utilization' = << >>
    /\ ras_before' = [i \in 1..Len(ras_members) |-> ras_members[i].current_workload]
    /\ UNCHANGED <<ras_members, ras_tasks, ras_runs, ras_first>>
    /\ UNCHANGED RASOthers

\* Lines 399-418: one iteration of the task loop; the ZeroDivisionError of
\* _find_suitable_member is caught nowhere and ends the call.
RASAllocateTask ==
    /\ ras_pc = "loop"
    /\ ras_i <= Len(ras_tasks)
    /\ LET task == ras_tasks[ras_i]
       IN IF SuitableIndices(task, ras_members) # {} /\ SkillMatchRaises(task)
          THEN /\ ras_pc' = "raised"
               /\ ras_runs' = ras_runs + 1
               /\ ras_first' = IF ras_runs = 0
                               THEN [allocations |-> ras_allocations,
                                     unallocated |-> ras_unallocated, ended |-> "raised"]
                               ELSE ras_first
               /\ UNCHANGED <<ras_members, ras_i, ras_allocations, ras_unallocated>>
          ELSE \E m \in {FindSuitableMember(task, ras_members)} :
                  /\ IF m # 0 /\ CanTakeTask(ras_members[m], task)
                     THEN /\ ras_members' = [ras_members EXCEPT ![m] = AssignTask(@, task)]
                          /\ ras_allocations' = Append(ras_allocations,
                                 [task_id |-> task.id, task_title |-> task.title,
                                  assigned_to |-> ras_members[m].name,
                                  member_id |-> ras_members[m].id])
                          /\ UNCHANGED ras_unallocated
                     ELSE /\ ras_unallocated' = Append(ras_unallocated,
                                 [task_id |-> task.id, task_title |-> task.title,
                                  reason |-> "No suitable team member available"])
                          /\ UNCHANGED <<ras_members, ras_allocations>>
                  /\ ras_i' = ras_i + 1
                  /\ UNCHANGED <<ras_pc, ras_runs, ras_first>>
    /\ UNCHANGED <<ras_tasks, ras_utilization, ras_before>>
    /\ UNCHANGED RASOthers

\* Lines 420-428: the utilization of every member, and the return.
RASReturn ==
    /\ ras_pc = "loop"
    /\ ras_i > Len(ras_tasks)
    /\ ras_utilization' =
          [nm \in {ras_members[i].name : i \in 1..Len(ras_members)} |->
              LET i == CHOOSE k \in 1..Len(ras_members) :
                           /\ ras_members[k].name = nm
                           /\ \A l \in 1..Len(ras_members) : ras_members[l].name = nm => l <= k
              IN [current_workload |-> ras_members[i].current_workload,
                  utilization_percentage |-> UtilizationPercentage(ras_members[i].current_workload),
                  assigned_tasks |-> Len(ras_members[i].assigned_tasks)]]
    /\ ras_pc' = "returned"
    /\ ras_runs' = ras_runs + 1
    /\ ras_first' = IF ras_runs = 0
                    THEN [allocations |-> ras_allocations,
                          unallocated |-> ras_unallocated, ended |-> "returned"]
                    ELSE ras_first
    /\ UNCHANGED <<ras_members, ras_tasks, ras_i, ras_allocations, ras_unallocated, ras_before>>
    /\ UNCHANGED RASOthers


(***************************************************************************)
(* TaskAgent.generate_intelligent_tasks and its template fallback.         *)
(* A task is [title, priority, estimated_hours, skills_required,           *)
(* dependencies]; hours are in tenths of an hour.                          *)
(***************************************************************************)
Priorities == {"urgent", "high", "medium", "low"}

TaskDataNoDependencies(title, priority, hours10, skills, deps) ==
    [title |-> title, priority |-> priority, estimated_hours |-> hours10,
     skills_required |-> skills, dependencies |-> <<>>]

TaskData(title, priority, hours10, skills, deps) ==
    [title |-> title, priority |-> priority, estimated_hours |-> hours10,
     skills_required |-> skills, dependencies |-> deps]

\* Lines 420-437
BaseTasks(complexity) ==
    << TaskData("Requirements Analysis and Documentation", "high",
                IF complexity = "complex" THEN 160 ELSE 120,
                <<"business_analysis", "documentation">>, <<>>),
       TaskData("Technical Architecture Design", "high",
                IF complexity = "complex" THEN 240 ELSE 160,
                <<"system_design", "architecture">>,
                <<"Requirements Analysis and Documentation">>) >>

\* Lines 440-514
DomainTasks(domain) ==
    CASE domain = "blockchain" ->
           << TaskData("Smart Contract Architecture", "high", 320,
                       <<"solidity", "blockchain_architecture">>, <<"Technical Architecture Design">>),
              TaskData("Smart Contract Development", "high", 800,
                       <<"solidity", "smart_contract_development">>, <<"Smart Contract Architecture">>),
              TaskData("Security Audit Preparation", "urgent", 240,
                       <<"security_audit", "smart_contract_testing">>, <<"Smart Contract Development">>) >>
      [] domain = "ecommerce" ->
           << TaskData("Payment Gateway Integration", "high", 400,
                       <<"payment_integration", "security">>, <<"Technical Architecture Design">>),
              TaskData("Product Catalog System", "high", 480,
                       <<"backend_development", "database_design">>, <<"Technical Architecture Design">>),
              TaskData("Shopping Cart & Checkout Flow", "high", 360,
                       <<"frontend_development", "ux_design">>, <<"Product Catalog System">>) >>
      [] domain = "mobile" ->
           << TaskData("Cross-Platform Framework Setup", "high", 160,
                       <<"mobile_development", "react_native">>, <<"Technical Architecture Design">>),
              TaskData("Mobile UI/UX Implementation", "high", 600,
                       <<"mobile_ui", "user_experience">>, <<"Cross-Platform Framework Setup">>) >>
      [] OTHER -> << >>

\* Lines 517-542
CommonTasks(complexity) ==
    << TaskData("Database Design and Implementation", "high",
                IF complexity = "complex" THEN 280 ELSE 200,
                <<"database_design", "sql">>, <<"Technical Architecture Design">>),
       TaskData("API Development and Integration", "high",
                IF complexity = "complex" THEN 400 ELSE 280,
                <<"api_development", "backend_development">>,
                <<"Database Design and Implementation">>),
       TaskData("Testing Strategy Implementation", "high", 320,
                <<"testing", "test_automation">>, <<"API Development and Integration">>) >>

\* Lines 547-556: the estimates follow the timeline; a timeline of None
\* (no weeks found in the mission) changes nothing.
AdjustForTimeline(task, timeline) ==
    IF ~timeline.is_none /\ timeline.weeks # 0 /\ timeline.weeks < 8
    THEN [task EXCEPT !.estimated_hours = (@ * 8) \div 10,
                      !.priority = IF @ = "medium" THEN "low" ELSE @]
    ELSE IF ~timeline.is_none /\ timeline.weeks # 0 /\ timeline.weeks > 16
    THEN [task EXCEPT !.estimated_hours = (@ * 12) \div 10]
    ELSE task

FallbackTasksCommonFirst(context) ==
    LET all_tasks == CommonTasks(context.complexity) \o BaseTasks(context.complexity)
                     \o DomainTasks(context.domain)
    IN [k \in 1..Len(all_tasks) |-> AdjustForTimeline(all_tasks[k], context.timeline)]

\* _generate_context_aware_fallback_tasks
FallbackTasks(context) ==
    LET all_tasks == BaseTasks(context.complexity) \o DomainTasks(context.domain)
                     \o CommonTasks(context.complexity)
    IN [k \in 1..Len(all_tasks) |-> AdjustForTimeline(all_tasks[k], context.timeline)]

\* str.lower() changes the letters of UpperCase into those of LowerCase.  A
\* string of an AI response is the sequence of its characters, which are
\* ASCII.
UpperCase ==
    <<"A", "B", "C", "D", "E", "F", "G", "H", "I", "J", "K", "L", "M",
      "N", "O", "P", "Q", "R", "S", "T", "U", "V", "W", "X", "Y", "Z">>
LowerCase ==
    <<"a", "b", "c", "d", "e", "f", "g", "h", "i", "j", "k", "l", "m",
      "n", "o", "p", "q", "r", "s", "t", "u", "v", "w", "x", "y", "z">>

LowerChar(c) ==
    IF \E n \in 1..Len(UpperCase) : UpperCase[n] = c
    THEN LowerCase[CHOOSE n \in 1..Len(UpperCase) : UpperCase[n] = c]
    ELSE c

\* str.lower()
Lower(str) == [n \in 1..Len(str) |-> LowerChar(str[n])]

\* priority_map.get(priority_str, Priority.medium)
MapPriority(priority_str) ==
    CASE priority_str = <<"u", "r", "g", "e", "n", "t">> -> "urgent"
      [] priority_str = <<"h", "i", "g", "h">> -> "high"
      [] priority_str = <<"m", "e", "d", "i", "u", "m">> -> "medium"
      [] priority_str = <<"l", "o", "w">> -> "low"
      [] OTHER -> "medium"

\* The value of the 'priority' key of a task_dict: a string, or a value
\* that is no string (a number), or no such key.
Chars(chars) == [kind |-> "string", chars |-> chars]
NoPriority == [kind |-> "absent", chars |-> <<>>]
BadPriority == [kind |-> "nonstring", chars |-> <<>>]

\* The value of the 'estimated_hours' key, in tenths of an hour: a number,
\* or a value float() rejects (the string "abc"), or no such key.
Number(v) == [kind |-> "number", v |-> v]
NoHours == [kind |-> "absent", v |-> 0]
BadHours == [kind |-> "invalid", v |-> 0]

\* The JSON object {}: a dict with none of the keys.  A title of "absent"
\* stands for no 'title' key, a title of "nonstring" for a title that is a
\* number.
EmptyObject == [title |-> "absent", priority |-> NoPriority, hours |-> NoHours]

\* The JSON values: what json.loads returns.  An "object" is a dict with the
\* keys of item; a "wrapper" is the dict {"tasks": v} around the value v, its
\* only item; a "string" has chars; an "array" has items.
JsonObject(item) == [kind |-> "object", item |-> item, items |-> <<>>, chars |-> <<>>]
JsonArray(items) == [kind |-> "array", item |-> EmptyObject, items |-> items, chars |-> <<>>]
JsonWrapper(v) == [kind |-> "wrapper", item |-> EmptyObject, items |-> <<v>>, chars |-> <<>>]
JsonString(chars) == [kind |-> "string", item |-> EmptyObject, items |-> <<>>, chars |-> chars]
JsonNumber == [kind |-> "number", item |-> EmptyObject, items |-> <<>>, chars |-> <<>>]
JsonNull == [kind |-> "null", item |-> EmptyObject, items |-> <<>>, chars |-> <<>>]

\* The keys of a dict of the model, in the order the text has them.
ObjectKeys(item) ==
    (IF item.title = "absent" THEN <<>> ELSE <<JsonString(<<"t", "i", "t", "l", "e">>)>>)
    \o (IF item.priority.kind = "absent" THEN <<>>
        ELSE <<JsonString(<<"p", "r", "i", "o", "r", "i", "t", "y">>)>>)
    \o (IF item.hours.kind = "absent" THEN <<>>
        ELSE <<JsonString(<<"e", "s", "t", "i", "m", "a", "t", "e", "d", "_",
                            "h", "o", "u", "r", "s">>)>>)

\* for task_dict in tasks_data raises TypeError on a number and on None.
Iterable(tasks_data) == tasks_data.kind \notin {"number", "null"}

\* What for task_dict in tasks_data goes through: the items of a list, the
\* keys of a dict, the characters of a string.
Elements(tasks_data) ==
    CASE tasks_data.kind = "array" -> tasks_data.items
      [] tasks_data.kind = "object" -> ObjectKeys(tasks_data.item)
      [] tasks_data.kind = "wrapper" -> <<JsonString(<<"t", "a", "s", "k", "s">>)>>
      [] tasks_data.kind = "string" ->
            [n \in 1..Len(tasks_data.chars) |-> JsonString(<<tasks_data.chars[n]>>)]
      [] OTHER -> <<>>

\* task_dict has .get: it is a dict, with or without the keys of a task
\* (the dict {"tasks": v} has none of them).  A list, a string, a number
\* and None have no .get.
IsDict(task_dict) == task_dict.kind \in {"object", "wrapper"}

\* A mutant of the conversion of one element: a value float() rejects no
\* longer raises.
ItemRaisesNotForHours(task_dict) ==
    \/ ~IsDict(task_dict)
    \/ task_dict.item.priority.kind = "nonstring"
    \/ task_dict.item.title = "nonstring"

\* Whether building the TaskData of one element of tasks_data raises:
\* .get on something that is no dict, .lower() on a priority that is no
\* string, float() of a value that is no number, a title that is no string.
\* A key the dict does not have raises nothing: .get returns its default.
ItemRaises(task_dict) ==
    \/ ~IsDict(task_dict)
    \/ task_dict.item.priority.kind = "nonstring"
    \/ task_dict.item.hours.kind = "invalid"
    \/ task_dict.item.title = "nonstring"

\* float(task_dict.get('estimated_hours', 8.0))
ItemHours(item) ==
    IF item.hours.kind = "absent" THEN 80 ELSE item.hours.v

\* task_dict.get('priority', 'medium').lower(), mapped
ItemPriority(item) ==
    MapPriority(Lower(IF item.priority.kind = "absent"
                      THEN <<"m", "e", "d", "i", "u", "m">>
                      ELSE item.priority.chars))

\* Lines 382-398: the TaskData of one task_dict.  The item of a dict without
\* the keys of a task is EmptyObject, so every .get returns its default:
\* 'Untitled Task', 'medium', 8.0.
ItemTask(task_dict) ==
    TaskData(IF task_dict.item.title = "absent" THEN "Untitled Task" ELSE task_dict.item.title,
             ItemPriority(task_dict.item), ItemHours(task_dict.item), <<>>, <<>>)

\* The dicts an AI response's JSON is made of.
ItemCatalog ==
    { [title |-> "Setup CI", priority |-> Chars(<<"H", "I", "G", "H">>), hours |-> Number(125)],
      [title |-> "Write docs",
       priority |-> Chars(<<"w", "h", "e", "n", "e", "v", "e", "r">>), hours |-> NoHours],
      [title |-> "Spike", priority |-> Chars(<<"l", "o", "w">>), hours |-> Number(0)],
      [title |-> "absent", priority |-> Chars(<<"U", "r", "g", "e", "n", "t">>),
       hours |-> Number(-40)],
      [title |-> "Import data", priority |-> NoPriority, hours |-> BadHours] }

\* The text of an AI response is a sequence of tokens with nothing but
\* white space between them: "[", "]", "," and, for a wrapper, "{" (which
\* is {"tasks":) and "}"; an "atom" is an object, a number, a string or
\* null written out, an object without a bracket inside; a "word" is prose
\* without any bracket or brace, which is no JSON.
Token(t) == [t |-> t, v |-> JsonNull]
Atom(v) == [t |-> "atom", v |-> v]
Word == Token("word")

RECURSIVE Render(_)
RECURSIVE RenderItems(_)
\* The text of a JSON value.
Render(v) ==
    CASE v.kind = "array" -> <<Token("[")>> \o RenderItems(v.items) \o <<Token("]")>>
      [] v.kind = "wrapper" -> <<Token("{")>> \o Render(v.items[1]) \o <<Token("}")>>
      [] OTHER -> <<Atom(v)>>

RenderItems(items) ==
    IF items = <<>> THEN <<>>
    ELSE Render(Head(items))
         \o (IF Tail(items) = <<>> THEN <<>> ELSE <<Token(",")>> \o RenderItems(Tail(items)))

\* The text with prose before and after it.
InProse(text) == <<Word>> \o text \o <<Word>>

\* The tokens that begin with { and those that end with }.
OpensBrace(token) == token.t = "{" \/ (token.t = "atom" /\ token.v.kind = "object")
ClosesBrace(token) == token.t = "}" \/ (token.t = "atom" /\ token.v.kind = "object")

\* Where \[\s*\{ matches in the text, and where \}\s*\] ends after position i.
RegexOpens(text) ==
    {i \in 1..(Len(text) - 1) : text[i].t = "[" /\ OpensBrace(text[i + 1])}
RegexCloses(text, i) ==
    {j \in (i + 2)..Len(text) : text[j].t = "]" /\ ClosesBrace(text[j - 1])}

Least(S) == CHOOSE n \in S : \A k \in S : n <= k
Greatest(S) == CHOOSE n \in S : \A k \in S : n >= k

\* re.search(r'\[\s*\{.*\}\s*\]', ai_response, re.DOTALL): the match starts
\* at the leftmost "[" before a "{" that has a "}" before a "]" after it,
\* and .* takes it to the last such "]" of the text.
RegexSearch(text) ==
    LET starts == {i \in RegexOpens(text) : RegexCloses(text, i) # {}}
    IN IF starts = {}
       THEN [found |-> FALSE, first |-> 0, last |-> 0]
       ELSE [found |-> TRUE, first |-> Least(starts),
             last |-> Greatest(RegexCloses(text, Least(starts)))]

\* json_match is not None
RegexFindsArray(text) == RegexSearch(text).found

\* json_match.group()
RegexGroup(text) == SubSeq(text, RegexSearch(text).first, RegexSearch(text).last)

ParseFails == [ok |-> FALSE, value |-> JsonNull, next |-> 0]
Parsed(v, next) == [ok |-> TRUE, value |-> v, next |-> next]

RECURSIVE ParseValue(_, _)
RECURSIVE ParseItems(_, _, _)
\* The JSON value that starts at position n of the text, and the position
\* after it.
ParseValue(text, n) ==
    IF n > Len(text) THEN ParseFails
    ELSE CASE text[n].t = "atom" -> Parsed(text[n].v, n + 1)
           [] text[n].t = "[" ->
                IF n + 1 <= Len(text) /\ text[n + 1].t = "]"
                THEN Parsed(JsonArray(<<>>), n + 2)
                ELSE ParseItems(text, n + 1, <<>>)
           [] text[n].t = "{" ->
                LET inner == ParseValue(text, n + 1)
                IN IF inner.ok /\ inner.next <= Len(text) /\ text[inner.next].t = "}"
                   THEN Parsed(JsonWrapper(inner.value), inner.next + 1)
                   ELSE ParseFails
           [] OTHER -> ParseFails

\* The items of an array from position n on, after the items before them.
ParseItems(text, n, before) ==
    LET item == ParseValue(text, n)
    IN IF ~item.ok \/ item.next > Len(text) THEN ParseFails
       ELSE IF text[item.next].t = "]"
       THEN Parsed(JsonArray(Append(before, item.value)), item.next + 1)
       ELSE IF text[item.next].t = ","
       THEN ParseItems(text, item.next + 1, Append(before, item.value))
       ELSE ParseFails

\* json.loads: the text is one JSON value, or JSONDecodeError is raised.
JsonLoads(text) ==
    LET whole == ParseValue(text, 1)
    IN IF whole.ok /\ whole.next = Len(text) + 1
       THEN [raises |-> FALSE, value |-> whole.value]
       ELSE [raises |-> TRUE, value |-> JsonNull]

\* Lines 370-377: tasks_data, parsed from the match of the regex or, if
\* there is none, from the whole response.
TasksData(text) ==
    IF RegexFindsArray(text) THEN JsonLoads(RegexGroup(text)) ELSE JsonLoads(text)

\* The elements of the arrays of the responses: the dicts of the catalog,
\* the dict {"tasks": []}, which has none of the keys of a task, and the
\* number 1.
ArrayItems ==
    {JsonObject(item) : item \in ItemCatalog} \cup {JsonWrapper(JsonArray(<<>>)), JsonNumber}

\* The JSON values of the responses: an array; an array in an array or in
\* a wrapper; a number, null, the strings "" and "ok"; {} and a dict.
ResponseValues ==
    {JsonArray(items) : items \in BoundedSeq(ArrayItems, MaxItems)}
    \cup {JsonArray(<<JsonArray(items)>>) : items \in {<<>>} \cup {<<v>> : v \in ArrayItems}}
    \cup {JsonWrapper(JsonArray(items)) : items \in {<<>>} \cup {<<v>> : v \in ArrayItems}}
    \cup {JsonNumber, JsonNull, JsonString(<<>>), JsonString(<<"o", "k">>),
          JsonObject(EmptyObject),
          JsonObject([title |-> "Spike", priority |-> NoPriority, hours |-> NoHours])}

\* Texts that are no JSON: prose alone, an array with a comma before its
\* "]", and two arrays with prose between them.
MalformedTexts ==
    LET spike == Atom(JsonObject([title |-> "Spike", priority |-> NoPriority, hours |-> NoHours]))
    IN { <<Word>>,
         <<Token("["), spike, Token(","), Token("]")>>,
         <<Token("["), spike, Token("]"), Word, Token("["), spike, Token("]")>> }

\* What the text-generation call does: it raises (a timeout, a network
\* error), returns None or "", or returns a text: JSON alone or inside
\* prose, or text that is no JSON.
Responses ==
    { [kind |-> k, text |-> <<>>] : k \in {"raise", "empty"} }
    \cup { [kind |-> "text", text |-> Render(v)] : v \in ResponseValues }
    \cup { [kind |-> "text", text |-> InProse(Render(v))] : v \in ResponseValues }
    \cup { [kind |-> "text", text |-> t] : t \in MalformedTexts }

Contexts ==
    [ project_name : {"A2A Project"},
      domain : {"blockchain", "ecommerce", "mobile", "ai", "general"},
      complexity : {"medium", "complex"},
      timeline : {[is_none |-> TRUE, weeks |-> 0]}
                 \cup {[is_none |-> FALSE, weeks |-> w] : w \in {4, 12, 20}} ]

NoContext ==
    [project_name |-> "", domain |-> "general", complexity |-> "medium",
     timeline |-> [is_none |-> TRUE, weeks |-> 0]]
NoResponse == [kind |-> "none", text |-> <<>>]

GenIdle ==
    /\ gen_pc = "idle"
    /\ gen_context = NoContext
    /\ gen_response = NoResponse
    /\ gen_data = <<>>
    /\ gen_i = 1
    /\ gen_tasks = <<>>
    /\ gen_result = <<>>
    /\ gen_path = "none"

\* A call of generate_intelligent_tasks(context, resources).
GenInit ==
    /\ gen_pc = "start"
    /\ gen_context \in Contexts
    /\ gen_response \in Responses
    /\ gen_data = <<>>
    /\ gen_i = 1
    /\ gen_tasks = <<>>
    /\ gen_result = <<>>
    /\ gen_path = "none"

GenFallback ==
    /\ gen_result' = FallbackTasks(gen_context)
    /\ gen_path' = "fallback"
    /\ gen_pc' = "done"

\* Lines 358-380: the prompt, the call, the search for a JSON array, the
\* parse and the start of the loop.  The call raising, a response of None
\* or "", json.loads raising and a value that cannot be iterated over all
\* end in the templates.
GenCallAndParse ==
    /\ gen_pc = "start"
    /\ IF gen_response.kind \in {"raise", "empty"}
       THEN GenFallback /\ UNCHANGED <<gen_data, gen_i, gen_tasks>>
       ELSE LET tasks_data == TasksData(gen_response.text)
            IN IF tasks_data.raises \/ ~Iterable(tasks_data.value)
               THEN GenFallback /\ UNCHANGED <<gen_data, gen_i, gen_tasks>>
               ELSE /\ gen_data' = Elements(tasks_data.value)
                    /\ gen_i' = 1
                    /\ gen_tasks' = <<>>
                    /\ gen_pc' = "loop"
                    /\ UNCHANGED <<gen_result, gen_path>>
    /\ UNCHANGED <<gen_context, gen_response>>
    /\ UNCHANGED GenOthers

\* Lines 380-399: one iteration of the loop over tasks_data; an exception
\* leaves the loop for the outer handler, which returns the templates.
GenBuildTask ==
    /\ gen_pc = "loop"
    /\ gen_i <= Len(gen_data)
    /\ IF ItemRaises(gen_data[gen_i])
       THEN GenFallback /\ UNCHANGED <<gen_i, gen_tasks>>
       ELSE /\ gen_tasks' = Append(gen_tasks, ItemTask(gen_data[gen_i]))
            /\ gen_i' = gen_i + 1
            /\ UNCHANGED <<gen_pc, gen_result, gen_path>>
    /\ UNCHANGED <<gen_context, gen_response, gen_data>>
    /\ UNCHANGED GenOthers

\* Lines 401-402: return tasks.
GenReturnTasks ==
    /\ gen_pc = "loop"
    /\ gen_i > Len(gen_data)
    /\ gen_result' = gen_tasks
    /\ gen_path' = "ai"
    /\ gen_pc' = "done"
    /\ UNCHANGED <<gen_context, gen_response, gen_data, gen_i, gen_tasks>>
    /\ UNCHANGED GenOthers

(***************************************************************************)
(* TimelineGenerator.generate_project_timeline.  A date is a day number;   *)
(* day 0 is a Monday, so the weekday of day d is d % 7 (5 is Saturday).    *)
(* The project start also says whether it carries a time of day, as        *)
(* datetime.now() + timedelta(days=1) does.                                *)
(***************************************************************************)
Weekday(d) == d % 7

\* A mutant of _add_business_days: the days are counted backwards.
AddBusinessDaysBack(start_date, business_days) ==
    start_date - business_days

\* _add_business_days: step a day at a time, counting Monday to Friday.
RECURSIVE AddBusinessDays(_, _)
AddBusinessDays(start_date, business_days) ==
    IF business_days <= 0 THEN start_date
    ELSE AddBusinessDays(start_date + 1,
                         IF Weekday(start_date + 1) < 5 THEN business_days - 1
                         ELSE business_days)

\* A duration or time estimate string: its digits in order and the unit
\* words that occur in it.
DefaultDuration == [digits |-> <<2>>, units |-> {"week"}]
DefaultTimeEstimate == [digits |-> <<8>>, units |-> {"hour"}]

\* int(''.join(filter(str.isdigit, s))) raises ValueError on a string
\* without digits; it is reached when one of the tested unit words occurs.
ParseDurationRaises(d) ==
    d.digits = <<>> /\ d.units \cap {"week", "month", "day"} # {}

\* _parse_duration: weeks.
ParseDuration(d) ==
    IF "week" \in d.units THEN DigitsToInt(d.digits)
    ELSE IF "month" \in d.units THEN DigitsToInt(d.digits) * 4
    ELSE IF "day" \in d.units THEN DigitsToInt(d.digits) \div 5
    ELSE 2

ParseTimeEstimateRaises(t) ==
    t.digits = <<>> /\ t.units \cap {"hour", "day", "week"} # {}

\* _parse_time_estimate: hours, with daily_work_hours = 8.
ParseTimeEstimate(t) ==
    IF "hour" \in t.units THEN DigitsToInt(t.digits)
    ELSE IF "day" \in t.units THEN DigitsToInt(t.digits) * 8
    ELSE IF "week" \in t.units THEN DigitsToInt(t.digits) * 5 * 8
    ELSE 8

\* A mutant of the task duration: the velocity factor left out.
TaskDaysNoVelocity(task_hours) ==
    IF task_hours \div 8 >= 1 THEN task_hours \div 8 ELSE 1

\* max(1, int((task_hours / daily_work_hours) / team_velocity_factor)) with
\* daily_work_hours = 8 and team_velocity_factor = 0.8.
TaskDays(task_hours) ==
    IF (10 * task_hours) \div 64 >= 1 THEN (10 * task_hours) \div 64 ELSE 1

\* A mutant of the next milestone's start: the day the last one ended.
NextMilestoneStartSameDay(milestone_end) == milestone_end

\* current_date = milestone_end + timedelta(days=1)
NextMilestoneStart(milestone_end) == milestone_end + 1

\* milestone.get('duration', '2 weeks') and task.get('time_estimate', '8 hours')
MilestoneDuration(milestone) ==
    IF milestone.has_duration THEN milestone.duration ELSE DefaultDuration
TaskTimeEstimate(task) ==
    IF task.has_estimate THEN task.time_estimate ELSE DefaultTimeEstimate

\* {member['name']: 0 for member in team_members}: one entry per name, in
\* the order of first occurrence.
RECURSIVE InitialTeamWorkload(_)
InitialTeamWorkload(team) ==
    IF team = <<>> THEN <<>>
    ELSE LET before == InitialTeamWorkload(SubSeq(team, 1, Len(team) - 1))
             nm == team[Len(team)].name
         IN IF \E k \in 1..Len(before) : before[k].name = nm
            THEN before
            ELSE Append(before, [name |-> nm, days |-> 0])

LeastLoadedLast(workload) ==
    CHOOSE k \in 1..Len(workload) :
        /\ \A j \in 1..Len(workload) : workload[k].days <= workload[j].days
        /\ \A j \in (k + 1)..Len(workload) : workload[j].days > workload[k].days

\* min(team_workload.items(), key=lambda x: x[1]): the first entry with the
\* least days.
LeastLoaded(workload) ==
    CHOOSE k \in 1..Len(workload) :
        /\ \A j \in 1..Len(workload) : workload[k].days <= workload[j].days
        /\ \A j \in 1..(k - 1) : workload[j].days > workload[k].days

RECURSIVE MaxEndDate(_)
MaxEndDate(entries) ==
    IF Len(entries) = 1 THEN entries[1].end_date
    ELSE LET m == MaxEndDate(SubSeq(entries, 1, Len(entries) - 1))
         IN IF entries[Len(entries)].end_date > m THEN entries[Len(entries)].end_date ELSE m

\* (project_end - project_start).days: project_end is parsed from a date
\* string, project_start keeps its time of day.
TotalDurationDays(project_end, project_start) ==
    (project_end - project_start.day) - (IF project_start.has_time THEN 1 ELSE 0)

(***************************************************************************)
(* The inputs of the timeline runs.                                        *)
(***************************************************************************)
Duration(ds, u) == [digits |-> ds, units |-> {u}]

\* A description of "" stands for a milestone or task with no 'description'
\* key as well as for one whose description is empty: get('description', '')
\* gives both the same.
TlMilestoneCatalog ==
    { [title |-> "Design", description |-> "Design the system",
       has_duration |-> TRUE, duration |-> Duration(<<2>>, "week")],
      [title |-> "Build", description |-> "Build the system",
       has_duration |-> TRUE, duration |-> Duration(<<3>>, "month")],
      [title |-> "Review", description |-> "",
       has_duration |-> TRUE, duration |-> Duration(<<3>>, "day")],
      [title |-> "Handover", description |-> "Hand the system over",
       has_duration |-> TRUE, duration |-> Duration(<<0>>, "week")],
      [title |-> "Launch", description |-> "",
       has_duration |-> FALSE, duration |-> Duration(<<>>, "none")],
      [title |-> "Buffer", description |-> "Spare time",
       has_duration |-> TRUE, duration |-> Duration(<<>>, "week")] }

TlTaskCatalog ==
    { [title |-> "Write API", description |-> "Write the API", has_estimate |-> TRUE, time_estimate |-> Duration(<<8>>, "hour"),
       dependencies |-> <<>>],
      [title |-> "Write tests", description |-> "Test the API", has_estimate |-> TRUE, time_estimate |-> Duration(<<1, 6>>, "hour"),
       dependencies |-> <<"Write API">>],
      [title |-> "Migrate data", description |-> "", has_estimate |-> TRUE, time_estimate |-> Duration(<<4>>, "day"),
       dependencies |-> <<>>],
      [title |-> "Build UI", description |-> "Build the pages", has_estimate |-> TRUE, time_estimate |-> Duration(<<2>>, "week"),
       dependencies |-> <<>>],
      [title |-> "Fix bug", description |-> "", has_estimate |-> TRUE, time_estimate |-> Duration(<<2>>, "day"),
       dependencies |-> <<>>],
      [title |-> "Demo", description |-> "Show the product", has_estimate |-> FALSE, time_estimate |-> Duration(<<>>, "none"),
       dependencies |-> <<>>],
      [title |-> "Cleanup", description |-> "", has_estimate |-> TRUE, time_estimate |-> Duration(<<>>, "hour"),
       dependencies |-> <<>>] }

TlTeams ==
    { <<>>,
      <<[name |-> "Ana", role |-> "Developer"], [name |-> "Ben", role |-> "Tester"]>>,
      <<[name |-> "Ana", role |-> "Developer"], [name |-> "Ana", role |-> "Designer"]>> }

\* start_date given as a Monday or a Saturday, or not given and taken from
\* the clock on a Thursday.
TlStarts ==
    { [given |-> TRUE, day |-> 0, has_time |-> FALSE],
      [given |-> TRUE, day |-> 5, has_time |-> FALSE],
      [given |-> FALSE, day |-> 3, has_time |-> TRUE] }

NoSummary == [project_end |-> 0, total_duration_days |-> 0, total_milestones |-> 0,
              total_tasks |-> 0, team_size |-> 0, estimated_effort_hours |-> 0]
NoStart == [given |-> FALSE, day |-> 0, has_time |-> FALSE]

TLIdle ==
    /\ tl_pc = "idle"
    /\ tl_milestones = <<>>
    /\ tl_tasks = <<>>
    /\ tl_team = <<>>
    /\ tl_start = NoStart
    /\ tl_i = 1
    /\ tl_current = 0
    /\ tl_task_start = 0
    /\ tl_workload = <<>>
    /\ tl_ms_out = <<>>
    /\ tl_tasks_out = <<>>
    /\ tl_assignments = <<>>
    /\ tl_summary = NoSummary

\* generate_project_timeline is called; project_start is set and the
\* timeline dict is empty.
TLInit ==
    /\ tl_pc = "milestones"
    /\ \E n \in 0..MaxEntries :
          /\ tl_milestones \in BoundedSeq(TlMilestoneCatalog, n)
          /\ tl_tasks \in BoundedSeq(TlTaskCatalog, MaxEntries - n)
    /\ tl_team \in TlTeams
    /\ tl_start \in TlStarts
    /\ tl_i = 1
    /\ tl_current = tl_start.day
    /\ tl_task_start = 0
    /\ tl_workload = <<>>
    /\ tl_ms_out = <<>>
    /\ tl_tasks_out = <<>>
    /\ tl_assignments = <<>>
    /\ tl_summary = NoSummary

\* One iteration of the milestone loop.
TLMilestone ==
    /\ tl_pc = "milestones"
    /\ tl_i <= Len(tl_milestones)
    /\ LET d == MilestoneDuration(tl_milestones[tl_i])
       IN IF ParseDurationRaises(d)
          THEN /\ tl_pc' = "raised"
               /\ UNCHANGED <<tl_i, tl_current, tl_ms_out>>
          ELSE LET duration_weeks == ParseDuration(d)
                   milestone_end == AddBusinessDays(tl_current, duration_weeks * 5)
               IN /\ tl_ms_out' = Append(tl_ms_out,
                        [id |-> <<"milestone", tl_i>>,
                         title |-> tl_milestones[tl_i].title,
                         description |-> tl_milestones[tl_i].description,
                         start_date |-> tl_current,
                         end_date |-> milestone_end,
                         duration_days |-> duration_weeks * 5,
                         status |-> "planned"])
                  /\ tl_current' = NextMilestoneStart(milestone_end)
                  /\ tl_i' = tl_i + 1
                  /\ tl_pc' = "milestones"
    /\ UNCHANGED <<tl_milestones, tl_tasks, tl_team, tl_start, tl_task_start, tl_workload,
                   tl_tasks_out, tl_assignments, tl_summary>>
    /\ UNCHANGED TLOthers

\* The milestone loop is over: task_start_date and team_workload are set.
TLEnterTasks ==
    /\ tl_pc = "milestones"
    /\ tl_i > Len(tl_milestones)
    /\ tl_pc' = "tasks"
    /\ tl_i' = 1
    /\ tl_task_start' = tl_start.day
    /\ tl_workload' = InitialTeamWorkload(tl_team)
    /\ UNCHANGED <<tl_milestones, tl_tasks, tl_team, tl_start, tl_current, tl_ms_out,
                   tl_tasks_out, tl_assignments, tl_summary>>
    /\ UNCHANGED TLOthers

TaskTimelineEntryAfterDependencies(task, i, task_start_date, workload) ==
    LET t == TaskTimeEstimate(task)
        task_days == TaskDays(ParseTimeEstimate(t))
        waited == task_start_date + Len(task.dependencies)
    IN [id |-> <<"task", i>>,
        title |-> task.title,
        description |-> task.description,
        start_date |-> waited,
        end_date |-> AddBusinessDays(waited, task_days),
        duration_days |-> task_days,
        time_estimate |-> t,
        assigned_to |-> workload[LeastLoaded(workload)].name,
        dependencies |-> task.dependencies,
        status |-> "planned"]

\* task_timeline, the entry of the i-th task, which starts on
\* task_start_date with the team's days as they are in workload.
TaskTimelineEntry(task, i, task_start_date, workload) ==
    LET t == TaskTimeEstimate(task)
        task_days == TaskDays(ParseTimeEstimate(t))
    IN [id |-> <<"task", i>>,
        title |-> task.title,
        description |-> task.description,
        start_date |-> task_start_date,
        end_date |-> AddBusinessDays(task_start_date, task_days),
        duration_days |-> task_days,
        time_estimate |-> t,
        assigned_to |-> workload[LeastLoaded(workload)].name,
        dependencies |-> task.dependencies,
        status |-> "planned"]

\* task_start_date after the i-th of n tasks: moved on, except after the
\* last task.
NextTaskStartDate(task_start_date, task_days, i, n) ==
    IF i < n
    THEN task_start_date + (IF task_days \div 2 >= 1 THEN task_days \div 2 ELSE 1)
    ELSE task_start_date

\* One iteration of the task loop.
TLTask ==
    /\ tl_pc = "tasks"
    /\ tl_i <= Len(tl_tasks)
    /\ LET t == TaskTimeEstimate(tl_tasks[tl_i])
       IN IF ParseTimeEstimateRaises(t) \/ tl_workload = <<>>
          THEN /\ tl_pc' = "raised"
               /\ UNCHANGED <<tl_i, tl_task_start, tl_workload, tl_tasks_out>>
          ELSE LET entry == TaskTimelineEntry(tl_tasks[tl_i], tl_i, tl_task_start, tl_workload)
                   k == LeastLoaded(tl_workload)
               IN /\ tl_workload' = [tl_workload EXCEPT ![k].days = @ + entry.duration_days]
                  /\ tl_tasks_out' = Append(tl_tasks_out, entry)
                  /\ tl_task_start' = NextTaskStartDate(tl_task_start, entry.duration_days,
                                                        tl_i, Len(tl_tasks))
                  /\ tl_i' = tl_i + 1
                  /\ tl_pc' = "tasks"
    /\ UNCHANGED <<tl_milestones, tl_tasks, tl_team, tl_start, tl_current, tl_ms_out,
                   tl_assignments, tl_summary>>
    /\ UNCHANGED TLOthers

\* The task loop from the i-th task on, for tasks none of which raises:
\* the entries appended to tasks_timeline.
RECURSIVE TasksTimeline(_, _, _, _, _)
TasksTimeline(tasks, i, task_start_date, workload, tasks_timeline) ==
    IF i > Len(tasks) THEN tasks_timeline
    ELSE LET entry == TaskTimelineEntry(tasks[i], i, task_start_date, workload)
             k == LeastLoaded(workload)
         IN TasksTimeline(tasks, i + 1,
                          NextTaskStartDate(task_start_date, entry.duration_days, i, Len(tasks)),
                          [workload EXCEPT ![k].days = @ + entry.duration_days],
                          Append(tasks_timeline, entry))

\* The team assignments summary, one entry per element of team_members.
TeamAssignments(team, tasks_out) ==
    [m \in 1..Len(team) |->
        LET mine == {n \in 1..Len(tasks_out) : tasks_out[n].assigned_to = team[m].name}
            Mine(task) == task.assigned_to = team[m].name
            member_tasks == SelectSeq(tasks_out, Mine)
        IN [name |-> team[m].name,
            role |-> team[m].role,
            total_tasks |-> Cardinality(mine),
            total_workload_days |-> SumOver([n \in mine |-> tasks_out[n].duration_days], mine),
            tasks |-> [n \in 1..Len(member_tasks) |->
                         [id |-> member_tasks[n].id, title |-> member_tasks[n].title,
                          duration |-> member_tasks[n].duration_days]]]]

\* The summaries after the task loop, and the return; max() of an empty
\* list raises ValueError.
TLSummary ==
    /\ tl_pc = "tasks"
    /\ tl_i > Len(tl_tasks)
    /\ tl_assignments' = TeamAssignments(tl_team, tl_tasks_out)
    /\ IF tl_tasks_out = <<>> \/ tl_ms_out = <<>>
       THEN /\ tl_pc' = "raised"
            /\ UNCHANGED tl_summary
       ELSE LET last_task_end == MaxEndDate(tl_tasks_out)
                last_milestone_end == MaxEndDate(tl_ms_out)
                project_end == IF last_task_end > last_milestone_end
                               THEN last_task_end ELSE last_milestone_end
            IN /\ tl_summary' =
                     [project_end |-> project_end,
                      total_duration_days |-> TotalDurationDays(project_end, tl_start),
                      total_milestones |-> Len(tl_milestones),
                      total_tasks |-> Len(tl_tasks),
                      team_size |-> Len(tl_team),
                      estimated_effort_hours |->
                          SumOver([n \in 1..Len(tl_tasks) |->
                                      ParseTimeEstimate(TaskTimeEstimate(tl_tasks[n]))],
                                  1..Len(tl_tasks))]
               /\ tl_pc' = "done"
    /\ UNCHANGED <<tl_milestones, tl_tasks, tl_team, tl_start, tl_i, tl_current, tl_task_start,
                   tl_workload, tl_ms_out, tl_tasks_out>>
    /\ UNCHANGED TLOthers

(***************************************************************************)
(* Two calls of allocate_tasks_to_team in flight over one repository.  A   *)
(* call can be suspended where it awaits the repository (get_all, update), *)
(* that is between two iterations of its loop; the TeamMember objects are  *)
(* the repository's own and are shared by the calls.                       *)
(***************************************************************************)
ParRuns == {"A", "B"}

\* Lines 403-418 for the member _find_suitable_member returned (0 is None).
AllocateTo(task, members, m) ==
    IF m # 0 /\ CanTakeTask(members[m], task)
    THEN [raised |-> FALSE,
          members |-> [members EXCEPT ![m] = AssignTask(@, task)],
          allocated |-> TRUE,
          entry |-> [task_id |-> task.id, task_title |-> task.title,
                     assigned_to |-> members[m].name, member_id |-> members[m].id]]
    ELSE [raised |-> FALSE, members |-> members, allocated |-> FALSE,
          entry |-> [task_id |-> task.id, task_title |-> task.title,
                     reason |-> "No suitable team member available"]]

\* One iteration of the loop of allocate_tasks_to_team on the members as
\* they are: whether it raises, the members afterwards, and what is
\* appended to which list.
AllocateStep(task, members) ==
    IF SuitableIndices(task, members) # {} /\ SkillMatchRaises(task)
    THEN [raised |-> TRUE, members |-> members, allocated |-> FALSE, entry |-> <<>>]
    ELSE AllocateTo(task, members, FindSuitableMember(task, members))

\* allocate_tasks_to_team(tasks) run from task i on with nothing else
\* touching the members: the lists when the call ends and how it ends.
RECURSIVE AllocateAlone(_, _, _, _, _)
AllocateAlone(tasks, members, i, allocations, unallocated) ==
    IF i > Len(tasks)
    THEN [allocations |-> allocations, unallocated |-> unallocated, ended |-> "returned"]
    ELSE LET step == AllocateStep(tasks[i], members)
         IN IF step.raised
            THEN [allocations |-> allocations, unallocated |-> unallocated, ended |-> "raised"]
            ELSE IF step.allocated
            THEN AllocateAlone(tasks, step.members, i + 1, Append(allocations, step.entry), unallocated)
            ELSE AllocateAlone(tasks, step.members, i + 1, allocations, Append(unallocated, step.entry))

ParRosters ==
    { <<[id |-> "m1", name |-> "Ana", skills |-> {"python", "sql"}, current_workload |-> 0,
         assigned_tasks |-> <<>>]>>,
      <<[id |-> "m1", name |-> "Ana", skills |-> {"python", "sql"}, current_workload |-> 0,
         assigned_tasks |-> <<>>],
        [id |-> "m2", name |-> "Ben", skills |-> {"python"}, current_workload |-> 0,
         assigned_tasks |-> <<>>]>> }

ParIdle ==
    /\ par_pc = [r \in ParRuns |-> "idle"]
    /\ par_tasks = [r \in ParRuns |-> <<>>]
    /\ par_i = [r \in ParRuns |-> 1]
    /\ par_members = <<>>
    /\ par_initial = <<>>
    /\ par_allocations = [r \in ParRuns |-> <<>>]
    /\ par_unallocated = [r \in ParRuns |-> <<>>]

\* The repository is filled and two callers hold their task lists.
ParInit ==
    /\ par_pc = [r \in ParRuns |-> "ready"]
    /\ par_tasks \in [ParRuns -> BoundedSeq(RasTaskCatalog, MaxParTasks)]
    /\ par_i = [r \in ParRuns |-> 1]
    /\ par_members \in ParRosters
    /\ par_initial = par_members
    /\ par_allocations = [r \in ParRuns |-> <<>>]
    /\ par_unallocated = [r \in ParRuns |-> <<>>]

\* A call starts: get_all() and the empty allocation_results.
ParBegin ==
    \E r \in ParRuns :
        /\ par_pc[r] = "ready"
        /\ par_pc' = [par_pc EXCEPT ![r] = "loop"]
        /\ UNCHANGED <<par_tasks, par_i, par_members, par_initial, par_allocations, par_unallocated>>
        /\ UNCHANGED ParOthers

\* One iteration of the loop of one of the calls.
ParAllocateTask ==
    \E r \in ParRuns :
        /\ par_pc[r] = "loop"
        /\ par_i[r] <= Len(par_tasks[r])
        /\ \E step \in {AllocateStep(par_tasks[r][par_i[r]], par_members)} :
              IF step.raised
              THEN /\ par_pc' = [par_pc EXCEPT ![r] = "raised"]
                   /\ UNCHANGED <<par_i, par_members, par_allocations, par_unallocated>>
              ELSE /\ par_members' = step.members
                   /\ par_allocations' =
                         IF step.allocated
                         THEN [par_allocations EXCEPT ![r] = Append(@, step.entry)]
                         ELSE par_allocations
                   /\ par_unallocated' =
                         IF step.allocated
                         THEN par_unallocated
                         ELSE [par_unallocated EXCEPT ![r] = Append(@, step.entry)]
                   /\ par_i' = [par_i EXCEPT ![r] = @ + 1]
                   /\ UNCHANGED par_pc
        /\ UNCHANGED <<par_tasks, par_initial>>
        /\ UNCHANGED ParOthers

\* A call returns its allocation_results.
ParReturn ==
    \E r \in ParRuns :
        /\ par_pc[r] = "loop"
        /\ par_i[r] > Len(par_tasks[r])
        /\ par_pc' = [par_pc EXCEPT ![r] = "returned"]
        /\ UNCHANGED <<par_tasks, par_i, par_members, par_initial, par_allocations, par_unallocated>>
        /\ UNCHANGED ParOthers

(***************************************************************************)
(* create_project_deliverables: the tools are called one after the other   *)
(* inside one try block; the except clause of that block records the      *)
(* error and the function returns what it has.                             *)
(***************************************************************************)
\* The ways the call of create_project_structure can end: a result with the
\* files created, a result that carries an 'error' entry, an exception.
ExportOutcomes == {"created", "error_result", "raises"}

\* Whether generate_project_timeline raises on these arguments: a duration
\* or an estimate that has a unit word and no digits, tasks and no team
\* member, no task, or no milestone.
GenerateProjectTimelineRaises(milestones, tasks, team_members) ==
    \/ \E n \in 1..Len(milestones) : ParseDurationRaises(MilestoneDuration(milestones[n]))
    \/ \E n \in 1..Len(tasks) : ParseTimeEstimateRaises(TaskTimeEstimate(tasks[n]))
    \/ tasks # <<>> /\ team_members = <<>>
    \/ tasks = <<>>
    \/ milestones = <<>>

TlMilestoneNamed(title) == CHOOSE m \in TlMilestoneCatalog : m.title = title

TlTaskNamed(title) == CHOOSE t \in TlTaskCatalog : t.title = title

\* The milestone lists, task lists and teams handed to the tools.
DelMilestoneLists == { <<>>, <<TlMilestoneNamed("Design")>>, <<TlMilestoneNamed("Buffer")>> }

DelTaskLists == { <<>>, <<TlTaskNamed("Write API")>> }

\* The teams handed to the tools: none, two of the members the supervisor
\* passes, and a member dict without a 'skills' entry.
DelTeams ==
    { <<>>,
      <<[name |-> "Senior Developer", role |-> "Full-Stack Lead",
         skills |-> <<[skill |-> "python", level |-> 9], [skill |-> "react", level |-> 8]>>],
        [name |-> "QA Engineer", role |-> "Testing Lead",
         skills |-> <<[skill |-> "testing", level |-> 9],
                     [skill |-> "automation", level |-> 7]>>]>>,
      <<[name |-> "Ana", role |-> "Developer"]>> }

\* Whether assign_tasks_to_team raises on these arguments: scoring a task
\* reads member["skills"] of every member.
AssignTasksToTeamRaises(tasks, team_members) ==
    /\ tasks # <<>>
    /\ \E n \in 1..Len(team_members) : "skills" \notin DOMAIN team_members[n]

\* The deliverables dict as it is created: project_id and created_at.
InitialDeliverables == {"project_id", "created_at"}

DelIdle ==
    /\ del_pc = "idle"
    /\ del_export = "created"
    /\ del_milestones = <<>>
    /\ del_tasks = <<>>
    /\ del_team = <<>>
    /\ del_local_project = "none"
    /\ del_deliverables = {}

\* create_project_deliverables is called: the deliverables dict is created
\* and the milestones and tasks are normalized.
DelInit ==
    /\ del_pc = "export"
    /\ del_export \in ExportOutcomes
    /\ del_milestones \in DelMilestoneLists
    /\ del_tasks \in DelTaskLists
    /\ del_team \in DelTeams
    /\ del_local_project = "none"
    /\ del_deliverables = InitialDeliverables

\* 1. Create Local Project Files.
DelExport ==
    /\ del_pc = "export"
    /\ IF del_export = "raises"
       THEN /\ del_deliverables' = del_deliverables \cup {"error"}
            /\ del_pc' = "return"
            /\ UNCHANGED del_local_project
       ELSE /\ del_deliverables' = del_deliverables \cup {"local_project"}
            /\ del_local_project' = del_export
            /\ del_pc' = "timeline"
    /\ UNCHANGED <<del_export, del_milestones, del_tasks, del_team>>
    /\ UNCHANGED DelOthers

\* 3. Generate Timeline.
DelTimeline ==
    /\ del_pc = "timeline"
    /\ IF GenerateProjectTimelineRaises(del_milestones, del_tasks, del_team)
       THEN /\ del_deliverables' = del_deliverables \cup {"error"}
            /\ del_pc' = "return"
       ELSE /\ del_deliverables' = del_deliverables \cup {"timeline"}
            /\ del_pc' = "assign"
    /\ UNCHANGED <<del_export, del_milestones, del_tasks, del_team, del_local_project>>
    /\ UNCHANGED DelOthers

\* 4. Assign Tasks to Team.
DelAssign ==
    /\ del_pc = "assign"
    /\ IF AssignTasksToTeamRaises(del_tasks, del_team)
       THEN /\ del_deliverables' = del_deliverables \cup {"error"}
            /\ del_pc' = "return"
       ELSE /\ del_deliverables' = del_deliverables \cup {"task_assignments"}
            /\ del_pc' = "calendar"
    /\ UNCHANGED <<del_export, del_milestones, del_tasks, del_team, del_local_project>>
    /\ UNCHANGED DelOthers

\* 5. Generate Calendar Events.
DelCalendar ==
    /\ del_pc = "calendar"
    /\ del_deliverables' = del_deliverables \cup {"calendar_events"}
    /\ del_pc' = "gantt"
    /\ UNCHANGED <<del_export, del_milestones, del_tasks, del_team, del_local_project>>
    /\ UNCHANGED DelOthers

\* 6. Generate Gantt Chart Data.
DelGantt ==
    /\ del_pc = "gantt"
    /\ del_deliverables' = del_deliverables \cup {"gantt_chart"}
    /\ del_pc' = "return"
    /\ UNCHANGED <<del_export, del_milestones, del_tasks, del_team, del_local_project>>
    /\ UNCHANGED DelOthers

\* return deliverables.
DelReturn ==
    /\ del_pc = "return"
    /\ del_pc' = "returned"
    /\ UNCHANGED <<del_export, del_milestones, del_tasks, del_team, del_local_project,
                   del_deliverables>>
    /\ UNCHANGED DelOthers

(***************************************************************************)
(* MilestoneAgent.create_milestone_plan and                                *)
(* create_structured_milestone_plan.  The durations an AI milestone        *)
(* carries are JSON numbers and need not be whole; durations on the AI     *)
(* path are counted in half weeks, so that 3 stands for 1.5 weeks.         *)
(***************************************************************************)
\* project_info.get('user_specified_duration', 8)
DefaultUserWeeks == 8

\* ai_milestone.get('duration_weeks', 2)
DefaultDurationWeeks == 2

NoDuration == [kind |-> "absent", half_weeks |-> 0]

NumberOfWeeks(half_weeks) == [kind |-> "number", half_weeks |-> half_weeks]

\* A duration_weeks that is a string, such as "2 weeks".
TextDuration == [kind |-> "text", half_weeks |-> 0]

UserWeeks(project_info) ==
    IF project_info.user_specified_duration = 0
    THEN DefaultUserWeeks
    ELSE project_info.user_specified_duration

\* The day of (current_date + timedelta(weeks = half_weeks / 2)) counted
\* from the day of current_date, as strftime("%Y-%m-%d") prints it: half a
\* week is three days and a half, which reaches the next day after noon.
Deadline(half_weeks, afternoon) ==
    (7 * half_weeks) \div 2 + (IF half_weeks % 2 = 1 /\ afternoon THEN 1 ELSE 0)

\* The duration the loop of the AI path gives a milestone, in half weeks:
\* the milestone's own, or max(1, user_weeks - total_weeks_used) when its
\* own would exceed the user's timeline.
ClampedDuration(duration, total_weeks_used, user_weeks) ==
    IF total_weeks_used + duration > 2 * user_weeks
    THEN (IF 2 * user_weeks - total_weeks_used > 2
          THEN 2 * user_weeks - total_weeks_used ELSE 2)
    ELSE duration

\* The phases of the structured plan, in order.
Features(project_info) ==
    (IF project_info.has_research THEN <<"Planning & Research">> ELSE <<>>)
    \o <<"Design & Architecture">>
    \o (IF project_info.has_development THEN <<"Development Phase">> ELSE <<>>)
    \o (IF project_info.has_testing THEN <<"Testing & Quality Assurance">> ELSE <<>>)
    \o (IF project_info.has_deployment THEN <<"Deployment & Launch">> ELSE <<>>)

BaseWeeksPerPhase(total_weeks, num_phases) ==
    IF total_weeks \div num_phases > 1 THEN total_weeks \div num_phases ELSE 1

\* The weeks a phase gets and the extra weeks left after it.
PhaseDuration(phase_name, i, num_phases, base_weeks_per_phase, extra_weeks) ==
    IF extra_weeks > 0 /\ phase_name \in {"Development Phase", "Testing & Quality Assurance"}
    THEN [weeks |-> base_weeks_per_phase + 1, extra_weeks |-> extra_weeks - 1]
    ELSE IF extra_weeks > 0 /\ i = num_phases
         THEN [weeks |-> base_weeks_per_phase + extra_weeks, extra_weeks |-> extra_weeks]
         ELSE [weeks |-> base_weeks_per_phase, extra_weeks |-> extra_weeks]

\* The milestone dicts the AI service can return.
AiMilestoneCatalog ==
    { [name |-> "Discovery", duration_weeks |-> NumberOfWeeks(2), critical_path |-> TRUE],
      [name |-> "Build", duration_weeks |-> NumberOfWeeks(6), critical_path |-> TRUE],
      [name |-> "Prototype", duration_weeks |-> NumberOfWeeks(3), critical_path |-> FALSE],
      [name |-> "Review", duration_weeks |-> NoDuration, critical_path |-> FALSE],
      [name |-> "Launch", duration_weeks |-> TextDuration, critical_path |-> TRUE] }

\* _fallback_milestones: what generate_smart_milestones returns without a
\* provider.
FallbackMilestones ==
    << [name |-> "Planning & Analysis", duration_weeks |-> NumberOfWeeks(4), critical_path |-> TRUE],
       [name |-> "Development", duration_weeks |-> NumberOfWeeks(8), critical_path |-> TRUE],
       [name |-> "Testing & Deployment", duration_weeks |-> NumberOfWeeks(4), critical_path |-> TRUE] >>

\* user_specified_duration is 0 where project_info has no such entry.
ProjectInfos ==
    [user_specified_duration : {0, 1, 2},
     has_research : BOOLEAN, has_development : BOOLEAN,
     has_testing : BOOLEAN, has_deployment : BOOLEAN]

NoProjectInfo ==
    [user_specified_duration |-> 0, has_research |-> FALSE, has_development |-> FALSE,
     has_testing |-> FALSE, has_deployment |-> FALSE]

MPIdle ==
    /\ mp_pc = "idle"
    /\ mp_project_info = NoProjectInfo
    /\ mp_enable_ai = FALSE
    /\ mp_ai_milestones = <<>>
    /\ mp_afternoon = FALSE
    /\ mp_i = 1
    /\ mp_total_weeks_used = 0
    /\ mp_features = <<>>
    /\ mp_extra_weeks = 0
    /\ mp_current_week = 0
    /\ mp_path = "none"
    /\ mp_milestones = <<>>

\* create_milestone_plan is called: milestones is empty and current_date
\* is read.  Without AI the service is not asked for milestones.
MPInit ==
    /\ mp_pc = "start"
    /\ mp_project_info \in ProjectInfos
    /\ mp_enable_ai \in BOOLEAN
    /\ mp_ai_milestones \in
          IF mp_enable_ai
          THEN BoundedSeq(AiMilestoneCatalog, MaxAiMilestones) \cup {FallbackMilestones}
          ELSE {<<>>}
    /\ mp_afternoon \in BOOLEAN
    /\ mp_i = 1
    /\ mp_total_weeks_used = 0
    /\ mp_features = <<>>
    /\ mp_extra_weeks = 0
    /\ mp_current_week = 0
    /\ mp_path = "none"
    /\ mp_milestones = <<>>

\* AI is enabled: generate_smart_milestones is awaited; an empty answer
\* leaves the plan to the structured fallback.
MPAskAi ==
    /\ mp_pc = "start"
    /\ mp_enable_ai
    /\ IF mp_ai_milestones # <<>>
       THEN mp_pc' = "ai_loop" /\ mp_path' = "ai"
       ELSE mp_pc' = "fallback" /\ UNCHANGED mp_path
    /\ UNCHANGED <<mp_project_info, mp_enable_ai, mp_ai_milestones, mp_afternoon, mp_i,
                   mp_total_weeks_used, mp_features, mp_extra_weeks, mp_current_week,
                   mp_milestones>>
    /\ UNCHANGED MPOthers

\* AI is not enabled.
MPSkipAi ==
    /\ mp_pc = "start"
    /\ ~mp_enable_ai
    /\ mp_pc' = "fallback"
    /\ UNCHANGED <<mp_project_info, mp_enable_ai, mp_ai_milestones, mp_afternoon, mp_i,
                   mp_total_weeks_used, mp_features, mp_extra_weeks, mp_current_week, mp_path,
                   mp_milestones>>
    /\ UNCHANGED MPOthers

\* One iteration of the loop over ai_milestones.  Adding a string to
\* total_weeks_used raises TypeError, which the except clause turns into
\* the structured fallback; the loop is left once the timeline is used up.
MPAiMilestone ==
    /\ mp_pc = "ai_loop"
    /\ mp_i <= Len(mp_ai_milestones)
    /\ LET ai_milestone == mp_ai_milestones[mp_i]
           user_weeks == UserWeeks(mp_project_info)
           given == IF ai_milestone.duration_weeks.kind = "absent"
                    THEN 2 * DefaultDurationWeeks
                    ELSE ai_milestone.duration_weeks.half_weeks
           duration == ClampedDuration(given, mp_total_weeks_used, user_weeks)
       IN IF ai_milestone.duration_weeks.kind = "text"
          THEN /\ mp_pc' = "fallback"
               /\ UNCHANGED <<mp_i, mp_total_weeks_used, mp_milestones>>
          ELSE IF mp_total_weeks_used >= 2 * user_weeks
               THEN /\ mp_pc' = "returned"
                    /\ UNCHANGED <<mp_i, mp_total_weeks_used, mp_milestones>>
               ELSE /\ mp_milestones' = Append(mp_milestones,
                          [name |-> ai_milestone.name,
                           deadline |-> Deadline(mp_total_weeks_used + duration, mp_afternoon),
                           priority |-> IF ai_milestone.critical_path THEN "high" ELSE "medium"])
                    /\ mp_total_weeks_used' = mp_total_weeks_used + duration
                    /\ mp_i' = mp_i + 1
                    /\ UNCHANGED mp_pc
    /\ UNCHANGED <<mp_project_info, mp_enable_ai, mp_ai_milestones, mp_afternoon, mp_features,
                   mp_extra_weeks, mp_current_week, mp_path>>
    /\ UNCHANGED MPOthers

\* The loop over ai_milestones is over: return milestones.
MPAiReturn ==
    /\ mp_pc = "ai_loop"
    /\ mp_i > Len(mp_ai_milestones)
    /\ mp_pc' = "returned"
    /\ UNCHANGED <<mp_project_info, mp_enable_ai, mp_ai_milestones, mp_afternoon, mp_i,
                   mp_total_weeks_used, mp_features, mp_extra_weeks, mp_current_week, mp_path,
                   mp_milestones>>
    /\ UNCHANGED MPOthers

\* create_structured_milestone_plan is entered: a new milestones list, the
\* phases, and the weeks left over after the even split.
MPStructuredBegin ==
    /\ mp_pc = "fallback"
    /\ mp_features' = Features(mp_project_info)
    /\ mp_extra_weeks' = UserWeeks(mp_project_info) % Len(Features(mp_project_info))
    /\ mp_current_week' = 0
    /\ mp_milestones' = <<>>
    /\ mp_i' = 1
    /\ mp_path' = "structured"
    /\ mp_pc' = "phases"
    /\ UNCHANGED <<mp_project_info, mp_enable_ai, mp_ai_milestones, mp_afternoon,
                   mp_total_weeks_used>>
    /\ UNCHANGED MPOthers

\* One iteration of the loop over the phases.
MPPhase ==
    /\ mp_pc = "phases"
    /\ mp_i <= Len(mp_features)
    /\ LET phase_name == mp_features[mp_i]
           num_phases == Len(mp_features)
           phase == PhaseDuration(phase_name, mp_i, num_phases,
                                  BaseWeeksPerPhase(UserWeeks(mp_project_info), num_phases),
                                  mp_extra_weeks)
       IN /\ mp_milestones' = Append(mp_milestones,
                [name |-> phase_name,
                 deadline |-> Deadline(2 * (mp_current_week + phase.weeks), mp_afternoon),
                 priority |-> IF phase_name \in {"Planning & Research", "Deployment & Launch"}
                              THEN "high" ELSE "medium"])
          /\ mp_extra_weeks' = phase.extra_weeks
          /\ mp_current_week' = mp_current_week + phase.weeks
          /\ mp_i' = mp_i + 1
    /\ UNCHANGED <<mp_pc, mp_project_info, mp_enable_ai, mp_ai_milestones, mp_afternoon,
                   mp_total_weeks_used, mp_features, mp_path>>
    /\ UNCHANGED MPOthers

\* The structured plan is returned.
MPStructuredReturn ==
    /\ mp_pc = "phases"
    /\ mp_i > Len(mp_features)
    /\ mp_pc' = "returned"
    /\ UNCHANGED <<mp_project_info, mp_enable_ai, mp_ai_milestones, mp_afternoon, mp_i,
                   mp_total_weeks_used, mp_features, mp_extra_weeks, mp_current_week, mp_path,
                   mp_milestones>>
    /\ UNCHANGED MPOthers

(***************************************************************************)
(* CalendarIntegration.create_calendar_events on the timeline that         *)
(* generate_project_timeline returned.  A title is the pair of its prefix  *)
(* and the entry's title.                                                  *)
(***************************************************************************)
\* The event of a milestone, which has no attendees.
MilestoneEvent(milestone) ==
    [id |-> <<"cal_event", milestone.id>>,
     title |-> <<"Milestone:", milestone.title>>,
     start_date |-> milestone.start_date,
     end_date |-> milestone.end_date,
     description |-> milestone.description,
     type |-> "milestone",
     all_day |-> TRUE,
     calendar |-> "A2A Project Milestones"]

TaskEventFromStart(task) ==
    [id |-> <<"cal_event", task.id>>,
     title |-> <<"Task Due:", task.title>>,
     start_date |-> task.start_date,
     end_date |-> task.end_date,
     description |-> <<"Assigned to:", task.assigned_to, task.description>>,
     type |-> "task_deadline",
     all_day |-> FALSE,
     attendees |-> <<task.assigned_to>>,
     calendar |-> "A2A Project Tasks"]

\* The deadline event of a task; its description is the line of the
\* assignee followed by the task's description.
TaskEvent(task) ==
    [id |-> <<"cal_event", task.id>>,
     title |-> <<"Task Due:", task.title>>,
     start_date |-> task.end_date,
     end_date |-> task.end_date,
     description |-> <<"Assigned to:", task.assigned_to, task.description>>,
     type |-> "task_deadline",
     all_day |-> FALSE,
     attendees |-> <<task.assigned_to>>,
     calendar |-> "A2A Project Tasks"]

\* The events of a timeline: the milestones' events, then the tasks'.
CalendarEvents(milestones_timeline, tasks_timeline) ==
    [n \in 1..Len(milestones_timeline) |-> MilestoneEvent(milestones_timeline[n])]
    \o [n \in 1..Len(tasks_timeline) |-> TaskEvent(tasks_timeline[n])]

CalIdle ==
    /\ cal_pc = "idle"
    /\ cal_events = <<>>

\* create_calendar_events(timeline) once the timeline is returned.
CreateCalendarEvents ==
    /\ tl_pc = "done"
    /\ cal_pc = "idle"
    /\ cal_events' = CalendarEvents(tl_ms_out, tl_tasks_out)
    /\ cal_pc' = "created"
    /\ UNCHANGED CalOthers

(***************************************************************************)
(* SupervisorAgent.handle_mission.  Every request to the agent calls it,   *)
(* and the calls are coroutines on one event loop: a call runs without     *)
(* interruption from one await to the next and the calls interleave at     *)
(* the awaits.  A send_to_agent either returns the other agent's response  *)
(* or raises (the agent cannot be reached, or its answer is an error); an  *)
(* exception anywhere in the enhanced coordination hands the mission to    *)
(* basic_mission_coordination.                                             *)
(***************************************************************************)
Missions == 1..MaxMissions

\* The entry handle_mission stores for a new project.
NewProject(project_id) == [project_id |-> project_id, status |-> "in_progress"]

SupIdle ==
    /\ sup_pc = [m \in Missions |-> "idle"]
    /\ sup_project_id = [m \in Missions |-> 0]
    /\ sup_active_projects = <<>>
    /\ sup_response = [m \in Missions |-> "none"]

\* The supervisor is constructed: active_projects is empty and no request
\* has arrived.
SupInit ==
    /\ sup_pc = [m \in Missions |-> "ready"]
    /\ sup_project_id = [m \in Missions |-> 0]
    /\ sup_active_projects = <<>>
    /\ sup_response = [m \in Missions |-> "none"]

\* handle_mission is called, whatever the other calls are doing: the
\* project is stored as in progress under a new project_id and the mission
\* is analyzed.
SupStoreProject ==
    \E m \in Missions :
        /\ sup_pc[m] = "ready"
        /\ sup_active_projects' =
              Append(sup_active_projects, NewProject(Len(sup_active_projects) + 1))
        /\ sup_project_id' = [sup_project_id EXCEPT ![m] = Len(sup_active_projects) + 1]
        /\ sup_pc' = [sup_pc EXCEPT ![m] = "milestone_agent"]
        /\ UNCHANGED sup_response
        /\ UNCHANGED SupOthers

\* Step 2: the milestone agent is asked.
SupSendMilestones ==
    \E m \in Missions, raises \in BOOLEAN :
        /\ sup_pc[m] = "milestone_agent"
        /\ sup_pc' = [sup_pc EXCEPT ![m] = IF raises THEN "fallback" ELSE "task_agent"]
        /\ UNCHANGED <<sup_project_id, sup_active_projects, sup_response>>
        /\ UNCHANGED SupOthers

\* Step 3: the task agent is asked.
SupSendTasks ==
    \E m \in Missions, raises \in BOOLEAN :
        /\ sup_pc[m] = "task_agent"
        /\ sup_pc' = [sup_pc EXCEPT ![m] = IF raises THEN "fallback" ELSE "resource_agent"]
        /\ UNCHANGED <<sup_project_id, sup_active_projects, sup_response>>
        /\ UNCHANGED SupOthers

\* Step 4: the resource agent is asked.
SupSendResources ==
    \E m \in Missions, raises \in BOOLEAN :
        /\ sup_pc[m] = "resource_agent"
        /\ sup_pc' = [sup_pc EXCEPT ![m] = IF raises THEN "fallback" ELSE "deliverables"]
        /\ UNCHANGED <<sup_project_id, sup_active_projects, sup_response>>
        /\ UNCHANGED SupOthers

\* Steps 5 and 6: the deliverables are created and the plan is compiled.
\* Compiling raises when an agent's message has no part to read the text
\* from, and the mission goes to the except clause with its project as it
\* is; otherwise the call's own project is marked completed and the plan is
\* returned.
SupComplete ==
    \E m \in Missions, raises \in BOOLEAN :
        /\ sup_pc[m] = "deliverables"
        /\ IF raises
              THEN /\ sup_pc' = [sup_pc EXCEPT ![m] = "fallback"]
                   /\ UNCHANGED <<sup_active_projects, sup_response>>
              ELSE /\ sup_active_projects' =
                         [sup_active_projects EXCEPT ![sup_project_id[m]].status = "completed"]
                   /\ sup_response' = [sup_response EXCEPT ![m] = "plan"]
                   /\ sup_pc' = [sup_pc EXCEPT ![m] = "returned"]
        /\ UNCHANGED sup_project_id
        /\ UNCHANGED SupOthers

\* The except clause: basic_mission_coordination asks the three agents
\* again and returns its plan, or the error text when that raises too.
SupBasicCoordination ==
    \E m \in Missions, raises \in BOOLEAN :
        /\ sup_pc[m] = "fallback"
        /\ sup_response' = [sup_response EXCEPT ![m] = IF raises THEN "error" ELSE "basic_plan"]
        /\ sup_pc' = [sup_pc EXCEPT ![m] = "returned"]
        /\ UNCHANGED <<sup_project_id, sup_active_projects>>
        /\ UNCHANGED SupOthers

(***************************************************************************)
(* BaseAgent.get_client and send_to_agent.  The calls are coroutines on    *)
(* one event loop: a call runs without interruption from one await that    *)
(* suspends to the next, and the calls interleave at those awaits.         *)
(***************************************************************************)
Callers == 1..MaxCallers

AgentUrls == {"milestone_agent_url", "task_agent_url"}

CliIdle ==
    /\ cli_pc = [c \in Callers |-> "idle"]
    /\ cli_url = [c \in Callers |-> "none"]
    /\ cli_client = [c \in Callers |-> 0]
    /\ cli_clients = [u \in AgentUrls |-> 0]
    /\ cli_created = <<>>

\* The agent is constructed with self.clients empty; the calls are about to
\* be made.
CliInit ==
    /\ cli_pc = [c \in Callers |-> "ready"]
    /\ cli_url = [c \in Callers |-> "none"]
    /\ cli_client = [c \in Callers |-> 0]
    /\ cli_clients = [u \in AgentUrls |-> 0]
    /\ cli_created = <<>>

\* send_to_agent enters get_client: a cached client is returned at once and
\* the message is sent with it; otherwise the call awaits the agent card.
CliGetClient ==
    \E c \in Callers, agent_url \in AgentUrls :
        /\ cli_pc[c] = "ready"
        /\ cli_url' = [cli_url EXCEPT ![c] = agent_url]
        /\ IF cli_clients[agent_url] # 0
              THEN /\ cli_client' = [cli_client EXCEPT ![c] = cli_clients[agent_url]]
                   /\ cli_pc' = [cli_pc EXCEPT ![c] = "sending"]
              ELSE /\ cli_pc' = [cli_pc EXCEPT ![c] = "resolving"]
                   /\ UNCHANGED cli_client
        /\ UNCHANGED <<cli_clients, cli_created>>
        /\ UNCHANGED CliOthers

\* get_agent_card returns or raises.  With the card, a persistent client is
\* created and stored under the url, and the call awaits the close of the
\* temporary client at the end of the async with block.
CliCardResolved ==
    \E c \in Callers, raises \in BOOLEAN :
        /\ cli_pc[c] = "resolving"
        /\ IF raises
              THEN /\ cli_pc' = [cli_pc EXCEPT ![c] = "failed"]
                   /\ UNCHANGED <<cli_clients, cli_created>>
              ELSE LET persistent_client == Len(cli_created) + 1 IN
                   /\ cli_created' = Append(cli_created, cli_url[c])
                   /\ cli_clients' = [cli_clients EXCEPT ![cli_url[c]] = persistent_client]
                   /\ cli_pc' = [cli_pc EXCEPT ![c] = "closing"]
        /\ UNCHANGED <<cli_url, cli_client>>
        /\ UNCHANGED CliOthers

\* The temporary client is closed: get_client returns self.clients[agent_url]
\* as it is now, and the message is sent with it.
CliClientClosed ==
    \E c \in Callers :
        /\ cli_pc[c] = "closing"
        /\ cli_client' = [cli_client EXCEPT ![c] = cli_clients[cli_url[c]]]
        /\ cli_pc' = [cli_pc EXCEPT ![c] = "sending"]
        /\ UNCHANGED <<cli_url, cli_clients, cli_created>>
        /\ UNCHANGED CliOthers

\* client.send_message returns the response, or raises what the post raised
\* (the request failed, or the status is an error), and so does
\* send_to_agent; the client stays in self.clients.
CliSendReturn ==
    \E c \in Callers, raises \in BOOLEAN :
        /\ cli_pc[c] = "sending"
        /\ cli_pc' = [cli_pc EXCEPT ![c] = IF raises THEN "failed" ELSE "done"]
        /\ UNCHANGED <<cli_url, cli_client, cli_clients, cli_created>>
        /\ UNCHANGED CliOthers

(***************************************************************************)
(* ResourceAgent.find_skill_matches.                                       *)
(***************************************************************************)
\* self.available_resources, category by category in the order of the dict.
AvailableResources ==
    << [name |-> "Alice Johnson", category |-> "senior_developers",
        skills |-> <<"backend_development", "system_design", "architecture", "python",
                     "api_design">>],
       [name |-> "Bob Chen", category |-> "senior_developers",
        skills |-> <<"frontend_development", "javascript", "react", "ui_design">>],
       [name |-> "Carol Davis", category |-> "senior_developers",
        skills |-> <<"fullstack_development", "backend_development", "frontend_development",
                     "database_design">>],
       [name |-> "David Wilson", category |-> "mid_developers",
        skills |-> <<"backend_development", "database_administration", "sql">>],
       [name |-> "Eva Rodriguez", category |-> "mid_developers",
        skills |-> <<"frontend_development", "javascript", "testing">>],
       [name |-> "Frank Kim", category |-> "mid_developers",
        skills |-> <<"backend_development", "api_design", "integration_testing">>],
       [name |-> "Grace Liu", category |-> "specialists",
        skills |-> <<"ux_design", "ui_design", "research">>],
       [name |-> "Henry Brown", category |-> "specialists",
        skills |-> <<"devops", "infrastructure", "deployment", "monitoring">>],
       [name |-> "Iris Taylor", category |-> "specialists",
        skills |-> <<"testing", "test_automation", "uat_coordination", "integration_testing">>],
       [name |-> "Jack Moore", category |-> "analysts",
        skills |-> <<"business_analysis", "communication", "research", "analysis">>],
       [name |-> "Kate Singh", category |-> "analysts",
        skills |-> <<"technical_analysis", "data_modeling", "analysis">>] >>

\* overlap = len(member_skills.intersection(required_set))
\* coverage = overlap / len(required_set) if required_set else 0
Coverage(member, required_skills) ==
    IF ToSet(required_skills) # {}
    THEN FloatDivInt(FloatFromInt(Cardinality(ToSet(member.skills) \cap ToSet(required_skills))),
                     Cardinality(ToSet(required_skills)))
    ELSE FloatZero

\* The thresholds 0.7 and 0.4.
CoveragePerfect == FloatLiteral(7, 10)
CoverageGood == FloatLiteral(4, 10)

\* {**member, "coverage": coverage} for every member of all_members.
WithCoverage(required_skills) ==
    [n \in 1..Len(AvailableResources) |->
        [name |-> AvailableResources[n].name,
         skills |-> AvailableResources[n].skills,
         category |-> AvailableResources[n].category,
         coverage |-> Coverage(AvailableResources[n], required_skills)]]

\* The three lists: coverage >= 0.7, else >= 0.4, else > 0.
MatchesOf(members) ==
    [perfect |-> SelectSeq(members, LAMBDA m : ~FloatLess(m.coverage, CoveragePerfect)),
     good |-> SelectSeq(members, LAMBDA m : /\ FloatLess(m.coverage, CoveragePerfect)
                                            /\ ~FloatLess(m.coverage, CoverageGood)),
     partial |-> SelectSeq(members, LAMBDA m : /\ FloatLess(m.coverage, CoverageGood)
                                               /\ FloatLess(FloatZero, m.coverage))]

\* find_skill_matches(required_skills)
FindSkillMatches(required_skills) == MatchesOf(WithCoverage(required_skills))

\* The skills the required_skills lists are made of: skills
\* extract_required_skills yields.
RequiredSkillCatalog == {"backend_development", "api_design", "testing", "ui_design"}

NoMatches == [perfect |-> <<>>, good |-> <<>>, partial |-> <<>>]

FsmIdle ==
    /\ fsm_pc = "idle"
    /\ fsm_required_skills = <<>>
    /\ fsm_matches = NoMatches

\* A call of find_skill_matches(required_skills).
FsmInit ==
    /\ fsm_pc = "ready"
    /\ fsm_required_skills \in BoundedSeq(RequiredSkillCatalog, MaxRequired)
    /\ fsm_matches = NoMatches

\* Lines 153-177: the whole call.
FsmFindSkillMatches ==
    /\ fsm_pc = "ready"
    /\ fsm_matches' = FindSkillMatches(fsm_required_skills)
    /\ fsm_pc' = "done"
    /\ UNCHANGED fsm_required_skills
    /\ UNCHANGED FsmOthers

(***************************************************************************)
(* The specification: one of the components runs.                          *)
(***************************************************************************)
Init ==
    \/ TMInit /\ RASIdle /\ GenIdle /\ TLIdle /\ ParIdle /\ DelIdle /\ MPIdle /\ CalIdle /\ SupIdle
       /\ CliIdle /\ FsmIdle
    \/ TMIdle /\ RASInit /\ GenIdle /\ TLIdle /\ ParIdle /\ DelIdle /\ MPIdle /\ CalIdle /\ SupIdle
       /\ CliIdle /\ FsmIdle
    \/ TMIdle /\ RASIdle /\ GenInit /\ TLIdle /\ ParIdle /\ DelIdle /\ MPIdle /\ CalIdle /\ SupIdle
       /\ CliIdle /\ FsmIdle
    \/ TMIdle /\ RASIdle /\ GenIdle /\ TLInit /\ ParIdle /\ DelIdle /\ MPIdle /\ CalIdle /\ SupIdle
       /\ CliIdle /\ FsmIdle
    \/ TMIdle /\ RASIdle /\ GenIdle /\ TLIdle /\ ParInit /\ DelIdle /\ MPIdle /\ CalIdle /\ SupIdle
       /\ CliIdle /\ FsmIdle
    \/ TMIdle /\ RASIdle /\ GenIdle /\ TLIdle /\ ParIdle /\ DelInit /\ MPIdle /\ CalIdle /\ SupIdle
       /\ CliIdle /\ FsmIdle
    \/ TMIdle /\ RASIdle /\ GenIdle /\ TLIdle /\ ParIdle /\ DelIdle /\ MPInit /\ CalIdle /\ SupIdle
       /\ CliIdle /\ FsmIdle
    \/ TMIdle /\ RASIdle /\ GenIdle /\ TLIdle /\ ParIdle /\ DelIdle /\ MPIdle /\ CalIdle /\ SupInit
       /\ CliIdle /\ FsmIdle
    \/ TMIdle /\ RASIdle /\ GenIdle /\ TLIdle /\ ParIdle /\ DelIdle /\ MPIdle /\ CalIdle /\ SupIdle
       /\ CliInit /\ FsmIdle
    \/ TMIdle /\ RASIdle /\ GenIdle /\ TLIdle /\ ParIdle /\ DelIdle /\ MPIdle /\ CalIdle /\ SupIdle
       /\ CliIdle /\ FsmInit

Next ==
    \/ TMInitWorkload
    \/ TMAssignTask
    \/ TMReturn
    \/ RASBegin
    \/ RASAllocateTask
    \/ RASReturn
    \/ GenCallAndParse
    \/ GenBuildTask
    \/ GenReturnTasks
    \/ TLMilestone
    \/ TLEnterTasks
    \/ TLTask
    \/ TLSummary
    \/ ParBegin
    \/ ParAllocateTask
    \/ ParReturn
    \/ DelExport
    \/ DelTimeline
    \/ DelAssign
    \/ DelCalendar
    \/ DelGantt
    \/ DelReturn
    \/ MPAskAi
    \/ MPSkipAi
    \/ MPAiMilestone
    \/ MPAiReturn
    \/ MPStructuredBegin
    \/ MPPhase
    \/ MPStructuredReturn
    \/ CreateCalendarEvents
    \/ SupStoreProject
    \/ SupSendMilestones
    \/ SupSendTasks
    \/ SupSendResources
    \/ SupComplete
    \/ SupBasicCoordination
    \/ CliGetClient
    \/ CliCardResolved
    \/ CliClientClosed
    \/ CliSendReturn
    \/ FsmFindSkillMatches

Spec == Init /\ [][Next]_vars


(***************************************************************************)
(* The real numbers of the claims: a rational n / d with d > 0, in exact   *)
(* arithmetic, and its comparison with the float the program computed.     *)
(***************************************************************************)
Rat(n, d) == [n |-> n, d |-> d]
RatLess(a, b) == a.n * b.d < b.n * a.d
RatEq(a, b) == a.n * b.d = b.n * a.d
RatLeq(a, b) == a.n * b.d <= b.n * a.d
RatSub(a, b) == [n |-> a.n * b.d - b.n * a.d, d |-> a.d * b.d]
Zero == Rat(0, 1)

\* Two floats at most four units in the last place apart.
FloatClose(a, b) ==
    \/ a = b
    \/ /\ a.sign = b.sign
       /\ a.e = b.e
       /\ LET c == BigCmp(a.m, b.m)
              diff == IF c = 1 THEN BigSub(a.m, b.m) ELSE BigSub(b.m, a.m)
          IN BigCmp(diff, <<4>>) <= 0

(***************************************************************************)
(* Properties of the task assigner.                                        *)
(***************************************************************************)
TMTeamIdx == 1..Len(tm_team)
TMDone == 1..Len(tm_log)

\* The indices of the tasks that were assigned, in order.
TMAssignedIdx == SelectSeq([k \in TMDone |-> k], LAMBDA k : tm_log[k].member # 0)
TMUnassignedIdx == SelectSeq([k \in TMDone |-> k], LAMBDA k : tm_log[k].member = 0)

\* The hours of the tasks before task k that went to a member called nm.
AccumulatedBefore(nm, k) ==
    SumOver([j \in 1..(k - 1) |->
                IF tm_log[j].member # 0 /\ tm_team[tm_log[j].member].name = nm
                THEN EstimateTaskHours(tm_tasks[j]) ELSE 0], 1..(k - 1))

\* The skill score as a real number: the mean of level times multiplier
\* over the member's skills that occur in the task text, capped at 10, and 0
\* when none occurs.
ClaimedSkillScore(task, member) ==
    LET matched == MatchedSkills(task, member)
        k == Cardinality(matched)
        total10 == SumOver([s \in matched |-> SkillLevel(member, s) * LevelMultiplier10(s)], matched)
    IN IF k > 0
       THEN IF total10 >= 100 * k THEN Rat(10, 1) ELSE Rat(total10, 10 * k)
       ELSE Zero

\* skill_score - 0.3 * (accumulated hours / 40) of member i for task k.
ClaimedFinalScore(k, i) ==
    RatSub(ClaimedSkillScore(tm_tasks[k], tm_team[i]),
           Rat(3 * AccumulatedBefore(tm_team[i].name, k), 400))

\* Member b has the highest final score for task k and is the earliest such.
IsFirstArgmax(k, b) ==
    /\ b \in TMTeamIdx
    /\ \A j \in TMTeamIdx :
          /\ RatLeq(ClaimedFinalScore(k, j), ClaimedFinalScore(k, b))
          /\ j < b => RatLess(ClaimedFinalScore(k, j), ClaimedFinalScore(k, b))

TasksInOrder ==
    /\ Len(tm_log) = tm_i - 1
    /\ Len(tm_assignments) = Len(TMAssignedIdx)
    /\ \A n \in 1..Len(tm_assignments) :
          tm_assignments[n].task_title = tm_tasks[TMAssignedIdx[n]].title
    /\ Len(tm_recs) = Len(TMUnassignedIdx)
    /\ \A n \in 1..Len(tm_recs) : tm_recs[n][2] = tm_tasks[TMUnassignedIdx[n]].title

\* C1: tasks are processed in the order supplied, and every task some member
\* has a skill for goes to the earliest of the members whose final score,
\* skill score minus 0.3 times accumulated hours over 40, is the highest.
C1_EveryTaskToArgmax ==
    /\ TasksInOrder
    /\ \A k \in TMDone :
          (\E i \in TMTeamIdx : MatchedSkills(tm_tasks[k], tm_team[i]) # {})
              => IsFirstArgmax(k, tm_log[k].member)

\* The hours of the allocations of the current run that went to member id.
RasAllocatedHours(id) ==
    SumOver([n \in 1..Len(ras_allocations) |->
                IF ras_allocations[n].member_id = id
                THEN (CHOOSE t \in {ras_tasks[k] : k \in 1..Len(ras_tasks)} :
                         t.id = ras_allocations[n].task_id).estimated_hours
                ELSE 0], 1..Len(ras_allocations))

\* The tasks done so far that went to member i of the roster.
AssignedTo(i) == {k \in TMDone : tm_log[k].member = i}

\* C2: at every point of a run, a member's accumulated hours are the sum of
\* the estimated hours of the tasks assigned to that member so far, each
\* counted once (so the hours of a task are in place when the next task is
\* scored, and a task left unassigned adds nothing); this holds when the run
\* ends.  A member's accumulated hours are those of the workload entry the
\* code reads for it, team_workload[member["name"]].
C2_WorkloadIsSumOfAssigned ==
    /\ tm_pc \in {"loop", "done"} =>
          /\ Len(tm_assignments) + Len(tm_recs) = tm_i - 1
          /\ \A n \in 1..Len(tm_assignments) :
                tm_assignments[n].estimated_hours = EstimateTaskHours(tm_tasks[TMAssignedIdx[n]])
          /\ \A i \in TMTeamIdx :
                /\ tm_workload[tm_team[i].name].total_hours =
                      SumOver([k \in AssignedTo(i) |-> EstimateTaskHours(tm_tasks[k])],
                              AssignedTo(i))
                /\ tm_workload[tm_team[i].name].assigned_tasks = Cardinality(AssignedTo(i))
    /\ ras_pc \in {"loop", "returned", "raised"} =>
          /\ Len(ras_allocations) + Len(ras_unallocated) = ras_i - 1
          /\ \A i \in 1..Len(ras_members) :
                ras_members[i].current_workload =
                    ras_before[i] + RasAllocatedHours(ras_members[i].id)

\* A TeamManager task has no list of required skills: the skills it
\* requires are the skills, of those a member can hold, that its title and
\* description name.
RequiredSkills(task) ==
    {s \in UNION {SkillNames(member) : member \in MemberCatalog} : SkillInText(s, task.text)}

\* 10 * |required \cap member.skills| / |required|, and 0 for a task that
\* requires no skill.
TenTimesCoverage(task, member) ==
    IF RequiredSkills(task) = {} THEN FloatZero
    ELSE FloatLiteral(10 * Cardinality(RequiredSkills(task) \cap SkillNames(member)),
                      Cardinality(RequiredSkills(task)))

\* C3: for every task and every member of the roster, the skill score the
\* assigner computes is 10 times the share of the task's required skills
\* that the member has, and 0 when the task requires none, so a member with
\* every required skill scores 10.0; the match_score of an assignment is
\* that score of the assignee.
C3_ScoreIsTenTimesCoverage ==
    /\ \A k \in TMDone : \A i \in TMTeamIdx :
          /\ FloatClose(SkillScore(tm_tasks[k], tm_team[i]),
                        TenTimesCoverage(tm_tasks[k], tm_team[i]))
          /\ (/\ RequiredSkills(tm_tasks[k]) # {}
              /\ RequiredSkills(tm_tasks[k]) \subseteq SkillNames(tm_team[i]))
                => SkillScore(tm_tasks[k], tm_team[i]) = FloatTen
    /\ \A n \in 1..Len(tm_assignments) :
          FloatClose(tm_assignments[n].match_score,
                     TenTimesCoverage(tm_tasks[TMAssignedIdx[n]],
                                      tm_team[tm_log[TMAssignedIdx[n]].member]))

\* C4: a task no member overlaps with is recorded as unassigned with the
\* reason "No suitable team member", no call raises, and every task of the
\* list is processed.
C4_NoOverlapIsRecordedNotRaised ==
    /\ ras_pc # "raised"
    /\ \A n \in 1..Len(ras_unallocated) : ras_unallocated[n].reason = "No suitable team member"
    /\ \A n \in 1..Len(tm_recs) : tm_recs[n] = <<"No suitable team member">>
    /\ tm_pc = "done" =>
          /\ Len(tm_log) = Len(tm_tasks)
          /\ \A k \in TMDone :
                (\A i \in TMTeamIdx : MatchedSkills(tm_tasks[k], tm_team[i]) = {})
                    => tm_log[k].member = 0
    /\ ras_pc = "returned" =>
          \A k \in 1..Len(ras_tasks) :
              (\A i \in 1..Len(ras_members) :
                    ras_tasks[k].skills_required \cap ras_members[i].skills = {})
                  => \E n \in 1..Len(ras_unallocated) : ras_unallocated[n].task_id = ras_tasks[k].id

\* C5: a task is left unassigned only when no member overlaps with it.
C5_UnassignedOnlyWithoutOverlap ==
    /\ \A k \in TMDone :
          (\E i \in TMTeamIdx : MatchedSkills(tm_tasks[k], tm_team[i]) # {})
              => tm_log[k].member # 0
    /\ \A n \in 1..Len(ras_unallocated) :
          LET task == CHOOSE t \in {ras_tasks[k] : k \in 1..Len(ras_tasks)} :
                          t.id = ras_unallocated[n].task_id
          IN \A i \in 1..Len(ras_members) : task.skills_required \cap ras_members[i].skills = {}

\* The matched skills of the tasks and members of the catalog, computed once.
MatchedSkillsOfCatalog ==
    [task \in TaskCatalog |-> [member \in MemberCatalog |-> MatchedSkills(task, member)]]

MatchedSkillsOf(task, member) ==
    IF task \in TaskCatalog /\ member \in MemberCatalog
    THEN MatchedSkillsOfCatalog[task][member]
    ELSE MatchedSkills(task, member)

\* The entries of the three lists find_skill_matches returned.
FsmReturned ==
    {fsm_matches.perfect[n] : n \in 1..Len(fsm_matches.perfect)}
    \cup {fsm_matches.good[n] : n \in 1..Len(fsm_matches.good)}
    \cup {fsm_matches.partial[n] : n \in 1..Len(fsm_matches.partial)}

\* The required skills a member of find_skill_matches has.
FsmOverlap(member) == ToSet(member.skills) \cap ToSet(fsm_required_skills)

\* C6: the score lies in [0, 10], and for one task (one set of required
\* skills) a member that matches a superset of the skills another member
\* matches never scores lower: for the skill score of the TeamManager, and
\* for the coverage find_skill_matches returns.
C6_MonotoneInMatchedSkills ==
    /\ \A k \in TMDone : \A i \in TMTeamIdx :
          LET si == SkillScore(tm_tasks[k], tm_team[i])
              mi == MatchedSkillsOf(tm_tasks[k], tm_team[i])
          IN /\ FloatLeq(FloatZero, si) /\ FloatLeq(si, FloatTen)
             /\ \A j \in TMTeamIdx :
                   mi \subseteq MatchedSkillsOf(tm_tasks[k], tm_team[j])
                      => FloatLeq(si, SkillScore(tm_tasks[k], tm_team[j]))
    /\ \A a \in FsmReturned :
          /\ FloatLeq(FloatZero, a.coverage) /\ FloatLeq(a.coverage, FloatTen)
          /\ \A b \in FsmReturned :
                FsmOverlap(a) \subseteq FsmOverlap(b) => FloatLeq(a.coverage, b.coverage)

\* C7: a call that ends returns what the first call with the same tasks and
\* the same roster returned.
C7_SecondRunEqualsFirst ==
    (ras_runs >= 2 /\ ras_pc \in {"returned", "raised"}) =>
        /\ ras_allocations = ras_first.allocations
        /\ ras_unallocated = ras_first.unallocated
        /\ ras_pc = ras_first.ended

(***************************************************************************)
(* Properties of task generation.                                          *)
(***************************************************************************)
\* C8: task generation returns at least one task, whatever the
\* text-generation call did.
C8_NeverEmpty ==
    gen_pc = "done" => Len(gen_result) >= 1

\* C9: every returned task has estimated hours above 0 and one of the four
\* priorities.
C9_PositiveHoursValidPriority ==
    gen_pc = "done" =>
        \A k \in 1..Len(gen_result) :
            /\ gen_result[k].estimated_hours > 0
            /\ gen_result[k].priority \in Priorities

\* C10: the returned list is either one task per element of the JSON taken
\* from the AI response, in order, or exactly the template list of the
\* context, never a mixture.  A call that raised, an empty response, text
\* that does not parse, a value that cannot be iterated over, an element
\* that is no dict (a list, a string, a number, null) and a dict with hours,
\* a priority or a title that cannot be converted all give the template
\* list, and nothing else does: a dict without the keys of a task, such as
\* {"tasks": []}, is converted with the defaults and stays on the AI path.
C10_TotalSubstitution ==
    gen_pc = "done" =>
        LET tasks_data == TasksData(gen_response.text)
            elements == IF tasks_data.raises THEN <<>> ELSE Elements(tasks_data.value)
            must_fall_back ==
                \/ gen_response.kind \in {"raise", "empty"}
                \/ tasks_data.raises
                \/ tasks_data.value.kind \in {"number", "null"}
                \/ \E k \in 1..Len(elements) :
                      \/ elements[k].kind \in {"array", "string", "number", "null"}
                      \/ elements[k].item.hours.kind = "invalid"
                      \/ elements[k].item.priority.kind = "nonstring"
                      \/ elements[k].item.title = "nonstring"
        IN /\ gen_path \in {"ai", "fallback"}
           /\ gen_path = "ai" =>
                 /\ gen_data = elements
                 /\ gen_result = [k \in 1..Len(elements) |-> ItemTask(elements[k])]
                 /\ \A k \in 1..Len(elements) :
                       elements[k].item = EmptyObject =>
                           gen_result[k] = TaskData("Untitled Task", "medium", 80, <<>>, <<>>)
           /\ gen_path = "fallback" => gen_result = FallbackTasks(gen_context)
           /\ must_fall_back <=> gen_path = "fallback"

\* A call in which a first element, the dict {"tasks": []}, had been
\* converted with the defaults when a later one raised, and the template
\* list was returned.
C10_Witness ==
    /\ gen_pc = "done"
    /\ gen_path = "fallback"
    /\ Len(gen_tasks) >= 1
    /\ gen_data[1] = JsonWrapper(JsonArray(<<>>))
    /\ gen_tasks[1] = TaskData("Untitled Task", "medium", 80, <<>>, <<>>)
    /\ gen_result = FallbackTasks(gen_context)
    /\ \A k \in 1..Len(gen_result) : gen_result[k].title # gen_tasks[1].title

(***************************************************************************)
(* Properties of the timeline scheduler.                                   *)
(***************************************************************************)
TLEntries == {tl_ms_out[k] : k \in 1..Len(tl_ms_out)} \cup {tl_tasks_out[k] : k \in 1..Len(tl_tasks_out)}

\* The days after start up to and including end that are not a Saturday or
\* a Sunday.
BusinessDaysBetween(start, end) == Cardinality({d \in (start + 1)..end : Weekday(d) < 5})

\* C11: in every milestone entry and every task entry of a timeline,
\* end_date is on or after start_date.
C11_EndNotBeforeStart ==
    \A e \in TLEntries : e.end_date >= e.start_date

\* A returned timeline with a milestone that ends the day it starts and a
\* task that ends after it starts.
C11_Witness ==
    /\ tl_pc = "done"
    /\ \E k \in 1..Len(tl_ms_out) : tl_ms_out[k].end_date = tl_ms_out[k].start_date
    /\ \E k \in 1..Len(tl_tasks_out) : tl_tasks_out[k].end_date > tl_tasks_out[k].start_date

\* C12: no date of a returned timeline is a Saturday or a Sunday: the
\* project start, the start and the end of every entry, the project end.
C12_NoWeekendDates ==
    tl_pc = "done" =>
        /\ Weekday(tl_start.day) < 5
        /\ Weekday(tl_summary.project_end) < 5
        /\ \A e \in TLEntries : Weekday(e.start_date) < 5 /\ Weekday(e.end_date) < 5

\* C13: every entry of a returned timeline has duration_days of at least 1.
C13_DurationAtLeastOne ==
    tl_pc = "done" => \A e \in TLEntries : e.duration_days >= 1

\* The days the duration text d of an entry stands for: "N weeks" is N*5
\* business days, "N months" N*4*5 and "N hours" max(1, floor((N/8)/0.8)),
\* which is max(1, floor(10N/64)).  For any other text nothing is claimed.
DaysAsParsed(d, duration_days) ==
    LET n == DigitsToInt(d.digits)
    IN /\ d.units = {"week"} => duration_days = n * 5
       /\ d.units = {"month"} => duration_days = n * 4 * 5
       /\ d.units = {"hour"} =>
             duration_days = IF (10 * n) \div 64 >= 1 THEN (10 * n) \div 64 ELSE 1

\* C14: every entry of a timeline, milestone or task, whose duration is
\* given as "N weeks" gets N*5 business days, as "N months" N*4*5 and as
\* "N hours" max(1, floor((N/8)/0.8)) days; so "2 weeks" is 10, "3 months"
\* is 60, "8 hours" is 1 and "16 hours" is 2; and the end of an entry is
\* that many business days after its start.
C14_DurationParsing ==
    /\ \A k \in 1..Len(tl_ms_out) :
          /\ DaysAsParsed(MilestoneDuration(tl_milestones[k]), tl_ms_out[k].duration_days)
          /\ BusinessDaysBetween(tl_ms_out[k].start_date, tl_ms_out[k].end_date)
                = tl_ms_out[k].duration_days
    /\ \A k \in 1..Len(tl_tasks_out) :
          /\ DaysAsParsed(TaskTimeEstimate(tl_tasks[k]), tl_tasks_out[k].duration_days)
          /\ BusinessDaysBetween(tl_tasks_out[k].start_date, tl_tasks_out[k].end_date)
                = tl_tasks_out[k].duration_days

\* C15 as stated: a task of "N days" gets a duration of N days.
C15_DaysTaskGetsNDays ==
    \A k \in 1..Len(tl_tasks_out) :
        LET t == TaskTimeEstimate(tl_tasks[k])
        IN t.units = {"day"} => tl_tasks_out[k].duration_days = DigitsToInt(t.digits)

\* C15, amended: a task of "N days", N >= 1, gets floor(N / 0.8) business
\* days, that is floor(5N / 4): N days up to N = 3 and more than N from
\* N = 4 on.
C15_DaysTaskGetsDaysOverVelocity ==
    \A k \in 1..Len(tl_tasks_out) :
        LET t == TaskTimeEstimate(tl_tasks[k])
            n == DigitsToInt(t.digits)
            q == tl_tasks_out[k].duration_days
        IN (t.units = {"day"} /\ n >= 1) =>
              /\ 4 * q <= 5 * n /\ 5 * n < 4 * (q + 1)
              /\ n <= 3 => q = n
              /\ n >= 4 => q > n
              /\ BusinessDaysBetween(tl_tasks_out[k].start_date, tl_tasks_out[k].end_date) = q

\* A returned timeline with a task of "4 days" that got 5 days and a task
\* of "2 days" that got 2.
C15_Witness ==
    /\ tl_pc = "done"
    /\ \E k \in 1..Len(tl_tasks_out) :
          /\ tl_tasks[k].time_estimate = Duration(<<4>>, "day")
          /\ tl_tasks_out[k].duration_days = 5
    /\ \E k \in 1..Len(tl_tasks_out) :
          /\ tl_tasks[k].time_estimate = Duration(<<2>>, "day")
          /\ tl_tasks_out[k].duration_days = 2

\* C16: the first milestone starts on the project start, each later one
\* starts the calendar day after the one before it ends, and so every
\* milestone starts after every earlier milestone has ended.
C16_MilestonesSequential ==
    /\ Len(tl_ms_out) >= 1 => tl_ms_out[1].start_date = tl_start.day
    /\ \A k \in 1..(Len(tl_ms_out) - 1) :
          tl_ms_out[k + 1].start_date = tl_ms_out[k].end_date + 1
    /\ \A j, k \in 1..Len(tl_ms_out) :
          j < k => tl_ms_out[k].start_date > tl_ms_out[j].end_date

\* A returned timeline with a milestone of no length followed by another.
C16_Witness ==
    /\ tl_pc = "done"
    /\ Len(tl_ms_out) >= 2
    /\ tl_ms_out[1].duration_days = 0
    /\ tl_ms_out[2].duration_days > 0

\* C17: generate_project_timeline raises for no input.
C17_TimelineNeverRaises ==
    tl_pc # "raised"

(***************************************************************************)
(* Properties of calls in flight together.                                 *)
(***************************************************************************)
\* C18: whatever the order in which the steps of two calls are taken, a
\* call that has ended has the allocations, the unallocated list and the
\* outcome it has when it runs alone on the members as they were.
C18_RunsDoNotObserveEachOther ==
    \A r \in ParRuns :
        par_pc[r] \in {"returned", "raised"} =>
            LET alone == AllocateAlone(par_tasks[r], par_initial, 1, <<>>, <<>>)
            IN /\ par_allocations[r] = alone.allocations
               /\ par_unallocated[r] = alone.unallocated
               /\ par_pc[r] = alone.ended

(***************************************************************************)
(* Properties of create_project_deliverables.                              *)
(***************************************************************************)
\* C19: when the local project-file export fails in a run, whether it
\* raises or returns a result that carries an error, the deliverables that
\* are returned record the failure and hold the timeline, the task
\* assignments, the calendar events and the Gantt data of that run.
C19_ExportFailureKeepsPlan ==
    (del_pc = "returned" /\ del_export # "created") =>
        /\ "error" \in del_deliverables \/ del_local_project = "error_result"
        /\ {"timeline", "task_assignments", "calendar_events", "gantt_chart"}
              \subseteq del_deliverables

(***************************************************************************)
(* Properties of the milestone plan.                                       *)
(***************************************************************************)
\* C20: a milestone plan that is returned, whether built from the AI
\* milestones or by the structured fallback, has durations that sum to at
\* most the user's timeline in weeks.
C20_PlanWithinTimeline ==
    mp_pc = "returned" =>
        /\ mp_path = "ai" => mp_total_weeks_used <= 2 * UserWeeks(mp_project_info)
        /\ mp_path = "structured" => mp_current_week <= UserWeeks(mp_project_info)

(***************************************************************************)
(* Properties of the calendar projection.                                  *)
(***************************************************************************)
\* The events of the calendar made for a timeline entry.
EventsOf(entry) ==
    {n \in 1..Len(cal_events) : cal_events[n].id = <<"cal_event", entry.id>>}

\* Every task has exactly one event: timed, on the task's end_date, with the
\* member the task is assigned to as its attendee; and there is no event
\* besides those of the milestones and the tasks.
TaskEventsAsClaimed ==
    /\ Len(cal_events) = Len(tl_ms_out) + Len(tl_tasks_out)
    /\ \A k \in 1..Len(tl_tasks_out) :
          /\ Cardinality(EventsOf(tl_tasks_out[k])) = 1
          /\ \A n \in EventsOf(tl_tasks_out[k]) :
                /\ ~cal_events[n].all_day
                /\ cal_events[n].start_date = tl_tasks_out[k].end_date
                /\ cal_events[n].end_date = tl_tasks_out[k].end_date
                /\ cal_events[n].attendees = <<tl_tasks_out[k].assigned_to>>

\* C21: the calendar of a timeline has exactly one all-day event per
\* milestone, starting and ending on the milestone's end_date, and exactly
\* one timed event per task on the task's end_date whose attendee is the
\* task's assignee.
C21_MilestoneEventOnEndDate ==
    cal_pc = "created" =>
        /\ TaskEventsAsClaimed
        /\ \A m \in 1..Len(tl_ms_out) :
              /\ Cardinality(EventsOf(tl_ms_out[m])) = 1
              /\ \A n \in EventsOf(tl_ms_out[m]) :
                    /\ cal_events[n].all_day
                    /\ cal_events[n].start_date = tl_ms_out[m].end_date
                    /\ cal_events[n].end_date = tl_ms_out[m].end_date

\* C21, amended: the all-day event of a milestone runs from the milestone's
\* start_date to its end_date; the task events are as claimed.
C21_MilestoneEventSpansMilestone ==
    cal_pc = "created" =>
        /\ TaskEventsAsClaimed
        /\ \A m \in 1..Len(tl_ms_out) :
              /\ Cardinality(EventsOf(tl_ms_out[m])) = 1
              /\ \A n \in EventsOf(tl_ms_out[m]) :
                    /\ cal_events[n].all_day
                    /\ cal_events[n].start_date = tl_ms_out[m].start_date
                    /\ cal_events[n].end_date = tl_ms_out[m].end_date

\* A calendar made for a timeline with a milestone that ends after it
\* starts and a task that ends after it starts.
C21_Witness ==
    /\ cal_pc = "created"
    /\ \E m \in 1..Len(tl_ms_out) : tl_ms_out[m].start_date < tl_ms_out[m].end_date
    /\ \E k \in 1..Len(tl_tasks_out) : tl_tasks_out[k].start_date < tl_tasks_out[k].end_date

(***************************************************************************)
(* Properties of the fallback task list.                                   *)
(***************************************************************************)
FallbackReturned == gen_pc = "done" /\ gen_path = "fallback"

\* The domain-specific tasks of a returned fallback list: what lies between
\* the two base tasks and the three common tasks.
DomainPart == SubSeq(gen_result, 3, Len(gen_result) - 3)

TitlesOf(tasks) == [k \in 1..Len(tasks) |-> tasks[k].title]

\* C22: the domain-specific tasks of the fallback list form a chain, each
\* declaring the previous one's title as its dependency; for ecommerce the
\* chain is payment gateway, product catalog, cart and checkout.
C22_DomainTasksFormChain ==
    FallbackReturned =>
        /\ \A k \in 2..Len(DomainPart) :
              DomainPart[k].dependencies = <<DomainPart[k - 1].title>>
        /\ gen_context.domain = "ecommerce" =>
              TitlesOf(DomainPart) = <<"Payment Gateway Integration", "Product Catalog System",
                                       "Shopping Cart & Checkout Flow">>

\* C22, amended: every domain-specific task declares one dependency, the
\* title of a task before it in the list: the first one the architecture
\* task, a later one the domain task before it, except that for ecommerce
\* the product catalog depends on the architecture task like the payment
\* gateway, and only cart and checkout depends on the domain task before it.
C22_DomainTasksDependOnEarlier ==
    FallbackReturned =>
        /\ Len(DomainPart) >= 1 =>
              DomainPart[1].dependencies = <<"Technical Architecture Design">>
        /\ \A k \in 2..Len(DomainPart) :
              DomainPart[k].dependencies =
                  IF gen_context.domain = "ecommerce" /\ k = 2
                  THEN <<"Technical Architecture Design">>
                  ELSE <<DomainPart[k - 1].title>>
        /\ gen_context.domain = "ecommerce" =>
              TitlesOf(DomainPart) = <<"Payment Gateway Integration", "Product Catalog System",
                                       "Shopping Cart & Checkout Flow">>

\* The fallback list was returned for the ecommerce domain.
C22_Witness ==
    /\ FallbackReturned
    /\ gen_context.domain = "ecommerce"
    /\ Len(DomainPart) = 3

\* C26: in a returned fallback list the titles are pairwise distinct and
\* every dependency of a task is the title of a task earlier in the list.
C26_DependenciesClosedAndAcyclic ==
    FallbackReturned =>
        /\ \A j, k \in 1..Len(gen_result) :
              j # k => gen_result[j].title # gen_result[k].title
        /\ \A k \in 1..Len(gen_result) :
              \A d \in 1..Len(gen_result[k].dependencies) :
                 \E j \in 1..(k - 1) : gen_result[j].title = gen_result[k].dependencies[d]

\* A fallback list with domain tasks, in which a task has a dependency.
C26_Witness ==
    /\ FallbackReturned
    /\ Len(gen_result) > 5
    /\ \E k \in 1..Len(gen_result) : gen_result[k].dependencies # <<>>

(***************************************************************************)
(* Properties of the scheduler's task loop.                                *)
(***************************************************************************)
\* C23: the first task starts on the project start date, and every later
\* task starts max(1, duration_days // 2) business days after the start of
\* the task before it, duration_days being that task's; weekend days do not
\* count in the offset.
C23_StartOffsetInBusinessDays ==
    /\ Len(tl_tasks_out) >= 1 => tl_tasks_out[1].start_date = tl_start.day
    /\ \A k \in 2..Len(tl_tasks_out) :
          LET previous == tl_tasks_out[k - 1]
              offset == IF previous.duration_days \div 2 >= 1
                        THEN previous.duration_days \div 2 ELSE 1
          IN tl_tasks_out[k].start_date = AddBusinessDays(previous.start_date, offset)

\* The days scheduled for a member name by the tasks before task k.
AccumulatedDays(name, k) ==
    LET mine == {j \in 1..(k - 1) : tl_tasks_out[j].assigned_to = name}
    IN SumOver([j \in mine |-> tl_tasks_out[j].duration_days], mine)

\* C24: every scheduled task, in input order, goes to the member with the
\* least days accumulated by the tasks before it, the first such member of
\* the roster on a tie; and the days the loop keeps for a member are those
\* of the tasks scheduled for it so far.
C24_LeastAccumulatedDaysFirst ==
    /\ \A k \in 1..Len(tl_tasks_out) :
          /\ tl_tasks_out[k].title = tl_tasks[k].title
          /\ \E m \in 1..Len(tl_team) :
                /\ tl_team[m].name = tl_tasks_out[k].assigned_to
                /\ \A j \in 1..Len(tl_team) :
                      AccumulatedDays(tl_team[m].name, k) <= AccumulatedDays(tl_team[j].name, k)
                /\ \A j \in 1..(m - 1) :
                      AccumulatedDays(tl_team[j].name, k) > AccumulatedDays(tl_team[m].name, k)
    /\ \A x \in 1..Len(tl_workload) :
          tl_workload[x].days = AccumulatedDays(tl_workload[x].name, Len(tl_tasks_out) + 1)

\* Three tasks are scheduled: the first went to the first member on a tie,
\* the second to the other member, and the third to the member with fewer
\* days although the other one comes first in the roster.
C24_Witness ==
    /\ tl_pc = "tasks"
    /\ Len(tl_tasks_out) = 3
    /\ Len(tl_team) = 2
    /\ tl_tasks_out[1].assigned_to = tl_team[1].name
    /\ tl_tasks_out[2].assigned_to = tl_team[2].name
    /\ tl_tasks_out[3].assigned_to = tl_team[2].name
    /\ AccumulatedDays(tl_team[2].name, 3) < AccumulatedDays(tl_team[1].name, 3)

\* The dependencies a task can be given in a second run.
DependencyChoices == { <<>>, <<"Write API">>, <<"Build UI", "Write API">> }

WithDependencies(tasks, deps) ==
    [k \in 1..Len(tasks) |-> [tasks[k] EXCEPT !.dependencies = deps[k]]]

DatesAndAssignees(tasks_timeline) ==
    [k \in 1..Len(tasks_timeline) |->
        [start_date |-> tasks_timeline[k].start_date,
         end_date |-> tasks_timeline[k].end_date,
         assigned_to |-> tasks_timeline[k].assigned_to]]

\* C25: when a timeline has been returned, a run whose tasks differ from
\* this run's in their dependencies only gives every task the start_date,
\* the end_date and the assignee this run gave it, and every entry of this
\* run carries the dependencies of its input task.
C25_DependenciesAreMetadataOnly ==
    tl_pc = "done" =>
        /\ \A deps \in [1..Len(tl_tasks) -> DependencyChoices] :
              DatesAndAssignees(TasksTimeline(WithDependencies(tl_tasks, deps), 1, tl_start.day,
                                              InitialTeamWorkload(tl_team), <<>>))
                 = DatesAndAssignees(tl_tasks_out)
        /\ \A k \in 1..Len(tl_tasks_out) :
              tl_tasks_out[k].dependencies = tl_tasks[k].dependencies

\* A timeline was returned for two tasks, the second of which depends on
\* the first and starts before the first has ended.
C25_Witness ==
    /\ tl_pc = "done"
    /\ Len(tl_tasks_out) = 2
    /\ tl_tasks_out[2].dependencies = <<tl_tasks_out[1].title>>
    /\ tl_tasks_out[2].start_date < tl_tasks_out[1].end_date

(***************************************************************************)
(* Properties of the team assignments summary.                             *)
(***************************************************************************)
\* C27: in the team_assignments of a returned timeline every scheduled task
\* is listed under exactly one member, and the members' total_tasks sum to
\* the number of tasks in tasks_timeline, also when two members of the
\* roster have the same name.
C27_EveryTaskUnderOneMember ==
    tl_pc = "done" =>
        /\ \A k \in 1..Len(tl_tasks_out) :
              Cardinality({m \in 1..Len(tl_assignments) :
                              \E n \in 1..Len(tl_assignments[m].tasks) :
                                 tl_assignments[m].tasks[n].id = tl_tasks_out[k].id}) = 1
        /\ SumOver([m \in 1..Len(tl_assignments) |-> tl_assignments[m].total_tasks],
                   1..Len(tl_assignments)) = Len(tl_tasks_out)

(***************************************************************************)
(* Properties of the members' workload.                                    *)
(***************************************************************************)
\* C28: the members start with at most 40 hours each, and after any number
\* of allocate_tasks_to_team calls, one after the other or in flight
\* together, no member has more than 40 hours.
C28_WorkloadWithinMaximum ==
    /\ \A i \in 1..Len(ras_members) : ras_members[i].current_workload <= MAX_WORKLOAD
    /\ \A i \in 1..Len(par_members) : par_members[i].current_workload <= MAX_WORKLOAD

\* A member was brought to exactly 40 hours by a call, and a later call
\* left a task it has the skills for unallocated.
C28_Witness ==
    /\ ras_runs >= 1
    /\ \E i \in 1..Len(ras_members) :
          /\ ras_members[i].current_workload = MAX_WORKLOAD
          /\ ras_members[i].assigned_tasks # <<>>
          /\ \E u \in 1..Len(ras_unallocated) :
                \E k \in 1..Len(ras_tasks) :
                   /\ ras_tasks[k].id = ras_unallocated[u].task_id
                   /\ ras_tasks[k].skills_required \subseteq ras_members[i].skills

(***************************************************************************)
(* Properties of the supervisor's project records.                         *)
(***************************************************************************)
\* C29: when a handle_mission call has returned, with the enhanced plan or
\* after the basic fallback coordination, the project it stored is no
\* longer "in_progress".
C29_NoProjectLeftInProgress ==
    \A m \in Missions :
        sup_pc[m] = "returned" =>
            sup_active_projects[sup_project_id[m]].status # "in_progress"

(***************************************************************************)
(* Properties of the agent's client cache.                                 *)
(***************************************************************************)
ClientsCreatedFor(agent_url) == {i \in 1..Len(cli_created) : cli_created[i] = agent_url}

\* C30: at most one persistent client is ever created for an agent url, and
\* all the calls for one url that obtained a client obtained the same one,
\* however the concurrent calls interleave.
C30_OnePersistentClientPerUrl ==
    /\ \A agent_url \in AgentUrls : Cardinality(ClientsCreatedFor(agent_url)) <= 1
    /\ \A c1, c2 \in Callers :
          (cli_url[c1] = cli_url[c2] /\ cli_client[c1] # 0 /\ cli_client[c2] # 0)
              => cli_client[c1] = cli_client[c2]

=============================================================================
